---- MODULE Spec2Model ----
(***************************************************************************)
(* A model of the glTFVariantMeld core library: construction of a          *)
(* WorkAsset from a parsed glTF document, WorkAsset::meld, export to a      *)
(* VariationalAsset, and the extension codecs those use.                    *)
(*                                                                         *)
(* Conventions.                                                            *)
(*  - Vec<T> is a sequence; stored glTF indices are 0-based as in the      *)
(*    source, so element ix of a Vec v is At(v, ix) = v[ix + 1].            *)
(*  - Option<T> is None = <<>> or Some(v) = <<v>>.                          *)
(*  - Result<T> is Ok(v), Err(e) (an error value) or Panic(e) (an           *)
(*    assertion failure, index out of range or unwrap of None).             *)
(*  - HashMap<Tag, V> is a function whose domain is a set of tags.          *)
(*  - A MeldKey is the structured value its string is formatted from: the   *)
(*    format strings of key_trait.rs are injective in their arguments.      *)
(*  - A primitive's geometry is represented by the value `print` that       *)
(*    build_fingerprint computes from it, in units of half the tolerance.   *)
(***************************************************************************)
EXTENDS Integers, Sequences, FiniteSets, TLC

VARIABLES inA, inB, inC, step, lw, va, mw, glb, slices, codec

vars == <<inA, inB, inC, step, lw, va, mw, glb, slices, codec>>

-----------------------------------------------------------------------------
(* Option, Result, Vec and HashMap helpers                                  *)

None == <<>>
Some(v) == <<v>>
IsSome(o) == Len(o) = 1
IsNone(o) == Len(o) = 0
Unwrap(o) == o[1]

Ok(v) == [ok |-> TRUE, val |-> v, err |-> "", panic |-> FALSE]
Err(e) == [ok |-> FALSE, val |-> <<>>, err |-> e, panic |-> FALSE]
Panic(e) == [ok |-> FALSE, val |-> <<>>, err |-> e, panic |-> TRUE]

At(v, ix) == v[ix + 1]
InRange(v, ix) == ix >= 0 /\ ix < Len(v)
Indices(v) == 0..(Len(v) - 1)
SetAt(v, ix, x) == [v EXCEPT ![ix + 1] = x]

EmptyMap == [t \in {} |-> None]
MapPut(m, k, v) == [x \in (DOMAIN m) \cup {k} |-> IF x = k THEN v ELSE m[x]]

\* The tags of the model, in the order String's Ord gives them.
TagSeq == <<"", "a", "b", "c">>
Tags == {TagSeq[i] : i \in 1..Len(TagSeq)}
TagRank(t) == CHOOSE i \in 1..Len(TagSeq) : TagSeq[i] = t

\* The elements of a set of tags as a sorted Vec (Vec::sort_unstable on Strings).
RECURSIVE SortTags(_)
SortTags(S) ==
    IF S = {} THEN <<>>
    ELSE LET m == CHOOSE t \in S : \A u \in S : TagRank(t) <= TagRank(u)
         IN <<m>> \o SortTags(S \ {m})

\* The elements of a set of integers as an ascending Vec.
RECURSIVE SortInts(_)
SortInts(S) ==
    IF S = {} THEN <<>>
    ELSE LET m == CHOOSE x \in S : \A y \in S : x <= y
         IN <<m>> \o SortInts(S \ {m})

\* The visiting orders a HashMap over tags may have: every permutation.
TagOrders == {o \in [1..Len(TagSeq) -> Tags] : \A t \in Tags : \E i \in 1..Len(TagSeq) : o[i] = t}

\* The keys of map m in the visiting order ord.
RECURSIVE KeysInOrder(_, _, _)
KeysInOrder(m, ord, i) ==
    IF i > Len(ord) THEN <<>>
    ELSE (IF ord[i] \in DOMAIN m THEN <<ord[i]>> ELSE <<>>) \o KeysInOrder(m, ord, i + 1)

-----------------------------------------------------------------------------
(* gltfext.rs                                                               *)

Pad4(blob) == blob \o [i \in 1..((4 - (Len(blob) % 4)) % 4) |-> 0]

\* An append that starts the view where the blob ends, aligned or not.
add_buffer_view_unpadded(bytes, buffer_views, blob) ==
    [ix |-> Len(buffer_views),
     buffer_views |-> Append(buffer_views, [buffer |-> 0, byte_length |-> Len(bytes),
                                            byte_offset |-> Some(Len(blob))]),
     blob |-> blob \o bytes]

add_buffer_view_from_slice(bytes, buffer_views, blob) ==
    LET padded == Pad4(blob)
        view_ix == Len(buffer_views)
        view == [buffer |-> 0, byte_length |-> Len(bytes), byte_offset |-> Some(Len(padded))]
    IN [ix |-> view_ix,
        buffer_views |-> Append(buffer_views, view),
        blob |-> padded \o bytes]

set_root_buffer(blob) ==
    IF blob = <<>> THEN <<>> ELSE <<[byte_length |-> Len(blob), uri |-> None]>>

ViewStart(view) == IF IsSome(view.byte_offset) THEN Unwrap(view.byte_offset) ELSE 0
ViewEnd(view) == ViewStart(view) + view.byte_length
ViewInBlob(view, blob) == ViewEnd(view) <= Len(blob)

buffer_view_as_slice(blob, view) == SubSeq(blob, ViewStart(view) + 1, ViewEnd(view))

-----------------------------------------------------------------------------
(* glb.rs                                                                   *)
(*                                                                         *)
(* A chunk is [kind, len]: to_bytes copies the payload and never looks at   *)
(* it, so a payload is represented by its length. The byte vector built is  *)
(* [head, chunks, len]: the 12 header bytes, per chunk the 4 length bytes,  *)
(* the 4 magic bytes, the padded payload length and the padding byte, and   *)
(* glb_bytes.len().                                                         *)

GLB_VERSION == 2
GLB_MAGIC == <<103, 108, 84, 70>>

\* (n as u32).to_le_bytes(): the cast keeps the low 32 bits.
to_le_bytes(n) ==
    <<n % 256, (n \div 256) % 256, (n \div 65536) % 256, (n \div 16777216) % 256>>

\* GlbChunk::magic: 0x4E4F534A and 0x004E4942.
magic(chunk) == IF chunk.kind = "JSON" THEN 1313821514 ELSE 5130562

\* The closure append_chunk of to_bytes; an empty chunk is left out.
append_chunk(glb_bytes, chunk) ==
    LET padded == ((chunk.len + 3) \div 4) * 4
    IN IF chunk.len > 0
       THEN [glb_bytes EXCEPT
                !.chunks = Append(@, [length |-> to_le_bytes(padded),
                                      magic |-> to_le_bytes(magic(chunk)),
                                      payload |-> chunk.len,
                                      padded |-> padded,
                                      fill |-> IF chunk.kind = "JSON" THEN 32 ELSE 0]),
                !.len = @ + 8 + padded]
       ELSE glb_bytes

\* GlbChunk::to_bytes
to_bytes(json_chunk, bin_chunk) ==
    LET header == [head |-> GLB_MAGIC \o to_le_bytes(GLB_VERSION) \o to_le_bytes(0),
                   chunks |-> <<>>,
                   len |-> 12]
        Filled(glb_bytes, glb_len_bytes) ==
            Ok([glb_bytes EXCEPT
                   !.head = [k \in 1..12 |-> IF k - 1 - 8 \in 0..2
                                             THEN At(glb_len_bytes, k - 1 - 8)
                                             ELSE @[k]]])
        Finish(glb_bytes) == Filled(glb_bytes, to_le_bytes(glb_bytes.len))
    IN IF json_chunk.kind # "JSON" THEN Err("First GLB chunk must be of type JSON.")
       ELSE IF IsNone(bin_chunk) THEN Finish(append_chunk(header, json_chunk))
       ELSE IF Unwrap(bin_chunk).kind # "BIN"
       THEN Err("Second GLB chunk must be of type BIN, or None.")
       ELSE Finish(append_chunk(append_chunk(header, json_chunk), Unwrap(bin_chunk)))

-----------------------------------------------------------------------------
(* work_asset/mod.rs: WorkAsset and its accessors                            *)
(*                                                                         *)
(* Root (the parsed JSON): extensions_used, fb_ext (the root's              *)
(* FB_material_variants slot), khr_ext (the root's variant table),          *)
(* buffers, buffer_views, images, samplers, textures, materials, meshes.    *)

\* EPS_FINGERPRINT = 1e-6, in the model's fingerprint unit of half a tolerance.
EPS_FINGERPRINT == 2

Abs(x) == IF x < 0 THEN -x ELSE x

\* Vec::iter().position(|k| k == key): the first index holding key.
position(keys, key) ==
    IF \E i \in 1..Len(keys) : keys[i] = key
    THEN Some((CHOOSE i \in 1..Len(keys) : keys[i] = key /\ \A j \in 1..(i - 1) : keys[j] # key) - 1)
    ELSE None

\* A lookup that misses every image.
image_ix_misses(asset, key) == None
image_ix(asset, key) == position(asset.image_keys, key)
material_ix(asset, key) == position(asset.material_keys, key)
\* A lookup that finds no mesh.
mesh_ix_misses(asset, key) == None
mesh_ix(asset, key) == position(asset.mesh_keys, key)
sampler_ix(asset, key) == position(asset.sampler_keys, key)
texture_ix(asset, key) == position(asset.texture_keys, key)

push_image(asset, item, key) ==
    [asset EXCEPT !.parse.images = Append(@, item), !.image_keys = Append(@, key)]
\* A push that puts the new material first.
push_material_front(asset, item, key) ==
    [asset EXCEPT !.parse.materials = <<item>> \o @, !.material_keys = <<key>> \o @]
push_material(asset, item, key) ==
    [asset EXCEPT !.parse.materials = Append(@, item), !.material_keys = Append(@, key)]
\* A push that adds the sampler and leaves the key table as it was.
push_sampler_unkeyed(asset, item, key) ==
    [asset EXCEPT !.parse.samplers = Append(@, item)]
push_sampler(asset, item, key) ==
    [asset EXCEPT !.parse.samplers = Append(@, item), !.sampler_keys = Append(@, key)]
push_texture(asset, item, key) ==
    [asset EXCEPT !.parse.textures = Append(@, item), !.texture_keys = Append(@, key)]

variant_mapping(asset, m_ix, p_ix) == At(At(asset.mesh_primitive_variants, m_ix), p_ix)

\* read_image_bytes: Ok(bytes), Err when the image has no resolvable view,
\* Panic when the view's extent is not within the blob.
read_image_bytes(parse, blob, image) ==
    IF IsSome(image.buffer_view) /\ InRange(parse.buffer_views, Unwrap(image.buffer_view))
    THEN LET view == At(parse.buffer_views, Unwrap(image.buffer_view))
         IN IF ViewInBlob(view, blob) THEN Ok(buffer_view_as_slice(blob, view))
            ELSE Panic("slice out of range")
    ELSE Err("Image with a URI field")

\* The first primitive index, other than exclude_ix, whose print is within
\* EPS_FINGERPRINT of print.
find_almost_equal_fingerprint(prints, print, exclude_ix) ==
    LET hit(i) == (IsNone(exclude_ix) \/ Unwrap(exclude_ix) # i)
                  /\ Abs(At(prints, i) - print) < EPS_FINGERPRINT
    IN IF \E i \in Indices(prints) : hit(i)
       THEN Some(CHOOSE i \in Indices(prints) : hit(i) /\ \A j \in 0..(i - 1) : ~hit(j))
       ELSE None

push_buffer_view_from_slice(asset, bytes) ==
    LET r == add_buffer_view_from_slice(bytes, asset.parse.buffer_views, asset.blob)
    IN [ix |-> r.ix,
        asset |-> [asset EXCEPT !.parse.buffer_views = r.buffer_views, !.blob = r.blob]]

-----------------------------------------------------------------------------
(* meld_keys/key_trait.rs                                                   *)

Sha1(bytes) == [sha1 |-> bytes]

\* The first failure among a Vec of Results (a panic while any key is built
\* unwinds before an error is collected), else the Vec of their values.
CollectResults(results) ==
    IF \E i \in 1..Len(results) : results[i].panic
    THEN results[CHOOSE i \in 1..Len(results) : results[i].panic]
    ELSE IF \E i \in 1..Len(results) : ~results[i].ok
    THEN results[CHOOSE i \in 1..Len(results) : ~results[i].ok /\ \A j \in 1..(i - 1) : results[j].ok]
    ELSE Ok([i \in 1..Len(results) |-> results[i].val])

image_build_meld_key(parse, blob, image) ==
    LET r == read_image_bytes(parse, blob, image)
    IN IF r.ok THEN Ok(Sha1(r.val)) ELSE r

sampler_build_meld_key(sampler) ==
    Ok([mag_filter |-> sampler.mag_filter, min_filter |-> sampler.min_filter,
        wrap_s |-> sampler.wrap_s, wrap_t |-> sampler.wrap_t])

texture_build_meld_key(image_keys, sampler_keys, texture) ==
    IF ~InRange(image_keys, texture.source)
       \/ (IsSome(texture.sampler) /\ ~InRange(sampler_keys, Unwrap(texture.sampler)))
    THEN Panic("index out of bounds")
    ELSE Ok([sampler |-> IF IsSome(texture.sampler)
                         THEN Some(At(sampler_keys, Unwrap(texture.sampler))) ELSE None,
             source |-> At(image_keys, texture.source)])

\* The five texture slots of a material, as (slot name, Option<Info>).
TextureSlots == {"base_color_texture", "metallic_roughness_texture", "normal_texture",
                 "occlusion_texture", "emissive_texture"}

key_for_texinfo(texture_keys, texinfo) ==
    IF IsSome(texinfo)
    THEN Some([tc |-> Unwrap(texinfo).tex_coord, src |-> At(texture_keys, Unwrap(texinfo).index)])
    ELSE None

material_build_meld_key(texture_keys, material) ==
    IF \E s \in TextureSlots : IsSome(material[s]) /\ ~InRange(texture_keys, Unwrap(material[s]).index)
    THEN Panic("index out of bounds")
    ELSE Ok([factors |-> material.factors,
             bct |-> key_for_texinfo(texture_keys, material.base_color_texture),
             mrt |-> key_for_texinfo(texture_keys, material.metallic_roughness_texture),
             nt |-> key_for_texinfo(texture_keys, material.normal_texture),
             ot |-> key_for_texinfo(texture_keys, material.occlusion_texture),
             et |-> key_for_texinfo(texture_keys, material.emissive_texture)])

mesh_build_meld_key(mesh) ==
    IF IsSome(mesh.name) THEN Ok(Unwrap(mesh.name)) ELSE Err("Mesh with no name")

-----------------------------------------------------------------------------
(* extension/: the codecs of the root and primitive extensions               *)

FB_MATERIAL_VARIANTS == "FB_material_variants"
KHR_MATERIALS_VARIANTS == "KHR_materials_variants"

\* extension::install
install(root) ==
    IF \E i \in 1..Len(root.extensions_used) : root.extensions_used[i] = FB_MATERIAL_VARIANTS
    THEN root
    ELSE [root EXCEPT !.extensions_used = Append(@, FB_MATERIAL_VARIANTS)]

\* on_root.rs
set_extension_tag(root, default_tag) ==
    [root EXCEPT !.fb_ext = Some([default_tag |-> default_tag])]

\* A reader that accepts an empty default tag.
get_root_extension_lax(root) ==
    IF IsSome(root.fb_ext) THEN Ok(Some(Unwrap(root.fb_ext))) ELSE Ok(None)
get_root_extension(root) ==
    IF IsSome(root.fb_ext)
    THEN IF Unwrap(root.fb_ext).default_tag # ""
         THEN Ok(Some(Unwrap(root.fb_ext)))
         ELSE Err("Missing default_tag in FB_material_variants root extension")
    ELSE Ok(None)

get_tag_from_extension(root) ==
    LET Tag(r) == IF ~r.ok THEN r
                  ELSE Ok(IF IsSome(r.val) THEN Some(Unwrap(r.val).default_tag) ELSE None)
    IN Tag(get_root_extension(root))

get_validated_extension_tag(root, default_tag) ==
    LET Validated(r) ==
            IF ~r.ok THEN r
            ELSE IF IsNone(default_tag)
            THEN IF IsSome(r.val) THEN Ok(Unwrap(r.val))
                 ELSE Err("No default tag provided, and none found in asset")
            ELSE IF IsSome(r.val)
            THEN IF Unwrap(r.val) = Unwrap(default_tag)
                 THEN Ok(Unwrap(default_tag))
                 ELSE Err("Provided tag does not match extension tag")
            ELSE Ok(Unwrap(default_tag))
    IN Validated(get_tag_from_extension(root))

\* The root variant table, read: variant index -> Tag, empty when absent.
get_variant_lookup(root) ==
    IF IsSome(root.khr_ext)
    THEN LET variants == Unwrap(root.khr_ext).variants
         IN [ix \in Indices(variants) |-> At(variants, ix).name]
    ELSE [ix \in {} |-> ""]

\* The root variant table, written: the tags in their sorted order.
write_variant_lookup(root, tags) ==
    LET sorted == SortTags(tags)
    IN [root EXCEPT !.khr_ext = Some([variants |-> [i \in 1..Len(sorted) |-> [name |-> sorted[i]]]])]

\* on_primitive.rs: the variant index the lookup gives a tag (find(..).unwrap()).
VariantIxOf(variant_ix_lookup, tag) ==
    CHOOSE ix \in DOMAIN variant_ix_lookup : variant_ix_lookup[ix] = tag

\* A writer that leaves the primitive as it is.
remove_variant_map_skipped(primitive) == Ok(primitive)
\* The empty map: the extension key is removed, the other extensions stay.
remove_variant_map(primitive) == Ok([primitive EXCEPT !.khr_ext = None])

\* A writer that makes one entry for each tag, in no order.
write_variant_map_ungrouped(primitive, tag_to_ix, variant_ix_lookup) ==
    IF DOMAIN tag_to_ix = {}
    THEN remove_variant_map(primitive)
    ELSE IF \E tag \in DOMAIN tag_to_ix : \A ix \in DOMAIN variant_ix_lookup : variant_ix_lookup[ix] # tag
    THEN Panic("unwrap on None")
    ELSE LET tags == KeysInOrder(tag_to_ix, <<"c", "b", "a", "">>, 1)
         IN Ok([primitive EXCEPT
                  !.khr_ext = Some([mappings |->
                      [i \in 1..Len(tags) |->
                          [material |-> tag_to_ix[tags[i]],
                           variants |-> <<VariantIxOf(variant_ix_lookup, tags[i])>>]]])])

write_variant_map(primitive, tag_to_ix, variant_ix_lookup) ==
    IF DOMAIN tag_to_ix = {}
    THEN remove_variant_map(primitive)
    ELSE IF \E tag \in DOMAIN tag_to_ix : \A ix \in DOMAIN variant_ix_lookup : variant_ix_lookup[ix] # tag
    THEN Panic("unwrap on None")
    ELSE LET Entry(ix) ==
                 [material |-> ix,
                  variants |-> SortInts({VariantIxOf(variant_ix_lookup, tag) :
                                          tag \in {t \in DOMAIN tag_to_ix : tag_to_ix[t] = ix}})]
             Written(materials) ==
                 Ok([primitive EXCEPT
                       !.khr_ext = Some([mappings |-> [i \in 1..Len(materials) |-> Entry(materials[i])]])])
         IN Written(SortInts({tag_to_ix[tag] : tag \in DOMAIN tag_to_ix}))

\* The (variant index, material) pairs of the mappings, in the order read.
RECURSIVE FlattenMappings(_)
FlattenMappings(mappings) ==
    IF mappings = <<>> THEN <<>>
    ELSE LET entry == Head(mappings)
         IN [i \in 1..Len(entry.variants) |-> [variant |-> entry.variants[i], material |-> entry.material]]
            \o FlattenMappings(Tail(mappings))

extract_variant_map(primitive, variant_ix_lookup) ==
    IF IsSome(primitive.khr_ext)
    THEN LET Last(pairs, tag) ==
                 CHOOSE i \in 1..Len(pairs) :
                    /\ variant_ix_lookup[pairs[i].variant] = tag
                    /\ \A j \in (i + 1)..Len(pairs) : variant_ix_lookup[pairs[j].variant] # tag
             Extracted(pairs) ==
                 IF \E i \in 1..Len(pairs) : pairs[i].variant \notin DOMAIN variant_ix_lookup
                 THEN Panic("key not found in lookup")
                 ELSE Ok([tag \in {variant_ix_lookup[pairs[i].variant] : i \in 1..Len(pairs)} |->
                            pairs[Last(pairs, tag)].material])
         IN Extracted(FlattenMappings(Unwrap(primitive.khr_ext).mappings))
    ELSE Ok(EmptyMap)

-----------------------------------------------------------------------------
(* work_asset/construct.rs                                                  *)

\* The files a URI may name: their bytes (fs::read) and their extension.
FileBytes(uri) == IF uri = "p.png" THEN <<5, 5>> ELSE IF uri = "q.jpg" THEN <<6>> ELSE <<8, 8, 8>>
FileExtension(uri) == IF uri = "p.png" THEN "png" ELSE IF uri = "q.jpg" THEN "jpg" ELSE "bin"

guess_mime_type(uri) ==
    IF FileExtension(uri) \in {"jpg", "jpeg"} THEN Ok("image/jpeg")
    ELSE IF FileExtension(uri) = "png" THEN Ok("image/png")
    ELSE Err("Can't guess mime type of URI")

\* transform_buffers: the blob with every URI buffer's bytes appended and padded.
RECURSIVE AppendUriBuffers(_, _)
AppendUriBuffers(buffers, blob) ==
    IF buffers = <<>> THEN blob
    ELSE AppendUriBuffers(Tail(buffers),
            IF IsSome(Head(buffers).uri) THEN Pad4(blob \o FileBytes(Unwrap(Head(buffers).uri)))
            ELSE blob)

transform_buffers(root, blob) ==
    IF Len(blob) % 4 # 0 THEN Panic("blob length is not a multiple of 4")
    ELSE LET Set(new_blob) ==
                 Ok([root |-> [root EXCEPT !.buffers = set_root_buffer(new_blob)], blob |-> new_blob])
         IN Set(AppendUriBuffers(root.buffers, blob))

\* transform_images: images ix.. of the root, one after the other.
RECURSIVE transform_images(_, _, _)
transform_images(root, blob, ix) ==
    IF ix >= Len(root.images) THEN Ok([root |-> root, blob |-> blob])
    ELSE IF IsNone(At(root.images, ix).buffer_view) /\ IsSome(At(root.images, ix).uri)
    THEN LET Replace(r, mime) ==
                 IF ~mime.ok THEN mime
                 ELSE transform_images(
                        [root EXCEPT !.buffer_views = r.buffer_views,
                                     !.images = SetAt(@, ix, [buffer_view |-> Some(r.ix),
                                                              mime_type |-> Some(mime.val),
                                                              uri |-> None])],
                        r.blob, ix + 1)
         IN Replace(add_buffer_view_from_slice(FileBytes(Unwrap(At(root.images, ix).uri)),
                                               root.buffer_views, blob),
                    guess_mime_type(Unwrap(At(root.images, ix).uri)))
    ELSE transform_images(root, blob, ix + 1)

transform_parse(root, blob) ==
    LET Images(b) == IF ~b.ok THEN b ELSE transform_images(b.val.root, b.val.blob, 0)
    IN Images(transform_buffers(root, blob))

build_image_keys(parse, blob) ==
    CollectResults([i \in 1..Len(parse.images) |-> image_build_meld_key(parse, blob, parse.images[i])])
build_sampler_keys(parse) ==
    CollectResults([i \in 1..Len(parse.samplers) |-> sampler_build_meld_key(parse.samplers[i])])
build_texture_keys(parse, image_keys, sampler_keys) ==
    CollectResults([i \in 1..Len(parse.textures) |->
                      texture_build_meld_key(image_keys, sampler_keys, parse.textures[i])])
build_material_keys(parse, texture_keys) ==
    CollectResults([i \in 1..Len(parse.materials) |->
                      material_build_meld_key(texture_keys, parse.materials[i])])
build_mesh_keys(parse) ==
    CollectResults([i \in 1..Len(parse.meshes) |-> mesh_build_meld_key(parse.meshes[i])])

\* build_fingerprints: the print of every primitive's geometry, mesh by mesh.
build_fingerprints(parse) ==
    [m \in 1..Len(parse.meshes) |->
        [p \in 1..Len(parse.meshes[m].primitives) |-> parse.meshes[m].primitives[p].print]]

ensure_unique_mesh_keys(mesh_keys) ==
    IF \E i, j \in 1..Len(mesh_keys) : i # j /\ mesh_keys[i] = mesh_keys[j]
    THEN Err("non-unique meld keys") ELSE Ok(TRUE)

\* A check that lets every asset through.
ensure_uniqueish_unchecked(prints) == Ok(TRUE)

ensure_uniqueish_fingerprints(prints) ==
    IF \E m \in 1..Len(prints) : \E p \in Indices(prints[m]) :
          IsSome(find_almost_equal_fingerprint(prints[m], At(prints[m], p), Some(p)))
    THEN Err("Can't cope with primitives being identical") ELSE Ok(TRUE)

\* map_variants: per mesh, per primitive, Tag -> material MeldKey.
map_variants(parse, material_keys) ==
    LET Places(extracted) ==
            UNION {{<<m, p>> : p \in 1..Len(extracted[m])} : m \in 1..Len(extracted)}
        First(places) ==
            CHOOSE pl \in places : \A o \in places : pl[1] < o[1] \/ (pl[1] = o[1] /\ pl[2] <= o[2])
        Mapped(extracted) ==
            IF \E pl \in Places(extracted) : ~extracted[pl[1]][pl[2]].ok
            THEN extracted[First({pl \in Places(extracted) : ~extracted[pl[1]][pl[2]].ok})[1]]
                          [First({pl \in Places(extracted) : ~extracted[pl[1]][pl[2]].ok})[2]]
            ELSE IF \E pl \in Places(extracted) : \E t \in DOMAIN extracted[pl[1]][pl[2]].val :
                       ~InRange(material_keys, extracted[pl[1]][pl[2]].val[t])
            THEN Panic("index out of bounds")
            ELSE Ok([m \in 1..Len(extracted) |->
                       [p \in 1..Len(extracted[m]) |->
                           [t \in DOMAIN extracted[m][p].val |->
                               At(material_keys, extracted[m][p].val[t])]]])
    IN Mapped([m \in 1..Len(parse.meshes) |->
                 [p \in 1..Len(parse.meshes[m].primitives) |->
                     extract_variant_map(parse.meshes[m].primitives[p], get_variant_lookup(parse))]])

\* WorkAsset::new
new(parse0, blob0, default_tag) ==
    LET Finish(parse, blob, tag, image_keys, sampler_keys, texture_keys, material_keys, mesh_keys,
               prints, unique, uniqueish, variants) ==
            IF ~tag.ok THEN tag
            ELSE IF ~image_keys.ok THEN image_keys
            ELSE IF ~texture_keys.ok THEN texture_keys
            ELSE IF ~material_keys.ok THEN material_keys
            ELSE IF ~mesh_keys.ok THEN mesh_keys
            ELSE IF ~unique.ok THEN unique
            ELSE IF ~uniqueish.ok THEN uniqueish
            ELSE IF ~variants.ok THEN variants
            ELSE Ok([parse |-> parse,
                     blob |-> blob,
                     default_tag |-> tag.val,
                     mesh_primitive_variants |-> variants.val,
                     image_keys |-> image_keys.val,
                     material_keys |-> material_keys.val,
                     mesh_keys |-> mesh_keys.val,
                     sampler_keys |-> sampler_keys.val,
                     texture_keys |-> texture_keys.val,
                     mesh_primitive_fingerprints |-> prints])
        Materials(parse, blob, tag, image_keys, sampler_keys, texture_keys, material_keys,
                  mesh_keys, prints) ==
            Finish(parse, blob, tag, image_keys, sampler_keys, texture_keys, material_keys,
                   mesh_keys, prints, ensure_unique_mesh_keys(mesh_keys.val),
                   ensure_uniqueish_fingerprints(prints), map_variants(parse, material_keys.val))
        Textures(parse, blob, tag, image_keys, sampler_keys, texture_keys) ==
            Materials(parse, blob, tag, image_keys, sampler_keys, texture_keys,
                      build_material_keys(parse, texture_keys.val), build_mesh_keys(parse),
                      build_fingerprints(parse))
        Images(parse, blob, tag, image_keys, sampler_keys) ==
            Textures(parse, blob, tag, image_keys, sampler_keys,
                     build_texture_keys(parse, image_keys.val, sampler_keys.val))
        Parsed(t) ==
            IF ~t.ok THEN t
            ELSE Images(t.val.root, t.val.blob,
                        get_validated_extension_tag(t.val.root, default_tag),
                        build_image_keys(t.val.root, t.val.blob), build_sampler_keys(t.val.root))
    IN Parsed(transform_parse(parse0, blob0))

\* WorkAsset::from_slice on a parsed container: its JSON and its optional BIN chunk.
from_slice(gltf, default_tag) ==
    IF IsSome(gltf.bin) /\ Len(gltf.json.buffers) # 1 THEN Panic("buffers.len() is not 1")
    ELSE IF IsSome(gltf.bin) /\ gltf.json.buffers[1].byte_length > Len(Unwrap(gltf.bin))
    THEN Panic("buffer longer than blob")
    ELSE new(gltf.json, IF IsSome(gltf.bin) THEN Unwrap(gltf.bin) ELSE <<>>, default_tag)

-----------------------------------------------------------------------------
(* work_asset/export.rs                                                     *)

\* accumulate_material_into_set: the indices a material's five slots hold.
accumulate_material_into_set(material, image_set) ==
    image_set \cup {Unwrap(material[s]).index : s \in {x \in TextureSlots : IsSome(material[x])}}

\* An accumulation that counts every material as variational.
accumulate_material_as_variational(sizer, materials, ix, is_variational) ==
    [sizer EXCEPT
       !.all_images = accumulate_material_into_set(At(materials, ix), @),
       !.variational_images = accumulate_material_into_set(At(materials, ix), @)]

\* ImageSizes after accumulate_material(ix, is_variational).
accumulate_material(sizer, materials, ix, is_variational) ==
    [sizer EXCEPT
       !.all_images = accumulate_material_into_set(At(materials, ix), @),
       !.variational_images =
           IF is_variational THEN accumulate_material_into_set(At(materials, ix), @) ELSE @]

\* ImageSizes after accumulate_tagged_material(ix, tag).
accumulate_tagged_material(sizer, materials, ix, tag) ==
    [sizer EXCEPT
       !.per_tag_images =
           MapPut(@, tag, accumulate_material_into_set(At(materials, ix),
                             IF tag \in DOMAIN @ THEN @[tag] ELSE {}))]

image_size(asset, ix) ==
    IF ~InRange(asset.parse.images, ix) THEN Panic("index out of bounds")
    ELSE LET Size(r) == IF r.ok THEN Ok(Len(r.val)) ELSE r
         IN Size(read_image_bytes(asset.parse, asset.blob, At(asset.parse.images, ix)))

RECURSIVE SumSizes(_, _)
SumSizes(sizes, image_set) ==
    IF image_set = {} THEN 0
    ELSE sizes[CHOOSE x \in image_set : TRUE].val
         + SumSizes(sizes, image_set \ {CHOOSE x \in image_set : TRUE})

\* ImageSizes::count
count(sizer, asset) ==
    LET Counted(sizes) ==
            IF \E ix \in sizer.all_images : ~sizes[ix].ok
            THEN sizes[CHOOSE ix \in sizer.all_images :
                          ~sizes[ix].ok /\ \A o \in sizer.all_images : ~sizes[o].ok => ix <= o]
            ELSE IF \E tag \in DOMAIN sizer.per_tag_images :
                       ~(sizer.per_tag_images[tag] \subseteq sizer.all_images)
            THEN Err("Tag references unknown image ix")
            ELSE Ok([all |-> SumSizes(sizes, sizer.all_images),
                     variational |-> SumSizes(sizes, sizer.all_images \cap sizer.variational_images),
                     tagged |-> [tag \in DOMAIN sizer.per_tag_images |->
                                    SumSizes(sizes, sizer.per_tag_images[tag])]])
    IN Counted([ix \in sizer.all_images |-> image_size(asset, ix)])

\* A loop that keeps the entry of the default tag with the others.
ExportEntriesKeepingDefault(asset, primitive, variant_map) ==
    IF \E tag \in DOMAIN variant_map : IsNone(material_ix(asset, variant_map[tag]))
    THEN Err("Non-existent meld key")
    ELSE Ok([tag \in DOMAIN variant_map |-> Unwrap(material_ix(asset, variant_map[tag]))])

\* The loop over one primitive's (tag, material_key) entries: the first failure,
\* or the tag -> material_ix map of the tags other than the default tag.
ExportEntries(asset, primitive, variant_map) ==
    IF \E tag \in DOMAIN variant_map : IsNone(material_ix(asset, variant_map[tag]))
    THEN Err("Non-existent meld key")
    ELSE IF asset.default_tag \in DOMAIN variant_map /\ IsNone(primitive.material)
    THEN Err("No default material, but variant map entry of default tag")
    ELSE IF asset.default_tag \in DOMAIN variant_map
            /\ Unwrap(primitive.material) # Unwrap(material_ix(asset, variant_map[asset.default_tag]))
    THEN Err("Default material != variant map entry of default tag")
    ELSE Ok([tag \in (DOMAIN variant_map) \ {asset.default_tag} |->
               Unwrap(material_ix(asset, variant_map[tag]))])

\* One primitive of export_variant_mapping: the primitive as written and the
\* sizer after it.
RECURSIVE AccumulateTags(_, _, _, _)
AccumulateTags(sizer, materials, tag_to_ix, tags) ==
    IF tags = {} THEN sizer
    ELSE LET tag == CHOOSE t \in tags : TRUE
         IN AccumulateTags(
                accumulate_tagged_material(
                    accumulate_material(sizer, materials, tag_to_ix[tag], TRUE),
                    materials, tag_to_ix[tag], tag),
                materials, tag_to_ix, tags \ {tag})

ExportPrimitive(asset, primitive, variant_map, sizer, variant_ix_lookup) ==
    LET Tagged(entries) ==
            IF IsSome(primitive.material) /\ DOMAIN entries # {}
            THEN MapPut(entries, asset.default_tag, Unwrap(primitive.material))
            ELSE entries
        Sized(entries, tagged) ==
            IF IsSome(primitive.material)
            THEN accumulate_tagged_material(
                     accumulate_material(tagged, asset.parse.materials, Unwrap(primitive.material),
                                         DOMAIN entries # {}),
                     asset.parse.materials, Unwrap(primitive.material), asset.default_tag)
            ELSE tagged
        Written(entries, written) ==
            IF ~written.ok THEN written
            ELSE Ok([primitive |-> written.val,
                     sizer |-> Sized(entries, AccumulateTags(sizer, asset.parse.materials, entries,
                                                             DOMAIN entries))])
        Entries(entries) ==
            IF ~entries.ok THEN entries
            ELSE Written(entries.val,
                         write_variant_map(primitive, Tagged(entries.val), variant_ix_lookup))
    IN Entries(ExportEntries(asset, primitive, variant_map))

\* The primitives p_ix.. of mesh m_ix, then the meshes after it.
RECURSIVE ExportFrom(_, _, _, _, _, _)
ExportFrom(asset, root, sizer, variant_ix_lookup, m_ix, p_ix) ==
    IF m_ix >= Len(root.meshes) THEN Ok([root |-> root, sizer |-> sizer])
    ELSE IF p_ix >= Len(At(root.meshes, m_ix).primitives)
    THEN ExportFrom(asset, root, sizer, variant_ix_lookup, m_ix + 1, 0)
    ELSE LET Rest(r) ==
                 IF ~r.ok THEN r
                 ELSE ExportFrom(asset,
                                 [root EXCEPT !.meshes[m_ix + 1].primitives[p_ix + 1] = r.val.primitive],
                                 r.val.sizer, variant_ix_lookup, m_ix, p_ix + 1)
         IN Rest(ExportPrimitive(asset, At(At(root.meshes, m_ix).primitives, p_ix),
                                 variant_mapping(asset, m_ix, p_ix), sizer, variant_ix_lookup))

NewImageSizes == [all_images |-> {}, variational_images |-> {}, per_tag_images |-> EmptyMap]

export_variant_mapping(asset, root) ==
    LET Metadata(new_root, c) ==
            IF ~c.ok THEN c
            ELSE Ok([root |-> new_root,
                     metadata |-> [tags |-> DOMAIN c.val.tagged,
                                   total_sizes |-> [texture_bytes |-> c.val.all],
                                   variational_sizes |-> [texture_bytes |-> c.val.variational],
                                   per_tag_sizes |-> [tag \in DOMAIN c.val.tagged |->
                                                         [texture_bytes |-> c.val.tagged[tag]]]]])
        Counted(r) == IF ~r.ok THEN r ELSE Metadata(r.val.root, count(r.val.sizer, asset))
    IN Counted(ExportFrom(asset, root, NewImageSizes, get_variant_lookup(root), 0, 0))

\* The tags of the root variant table: those any primitive's map mentions, and
\* the default tag.
VariantTableTags(asset) ==
    {asset.default_tag}
    \cup UNION {DOMAIN asset.mesh_primitive_variants[m][p] :
                  <<m, p>> \in UNION {{<<mm, pp>> : pp \in 1..Len(asset.mesh_primitive_variants[mm])} :
                                        mm \in 1..Len(asset.mesh_primitive_variants)}}

prepare_for_export(asset) ==
    LET Prepared(mapped) ==
            IF ~mapped.ok THEN mapped
            ELSE Ok([root |-> mapped.val.root, blob |-> asset.blob, metadata |-> mapped.val.metadata])
    IN Prepared(export_variant_mapping(
                    asset,
                    write_variant_lookup(set_extension_tag(install(asset.parse), asset.default_tag),
                                         VariantTableTags(asset))))

\* build_glb_for_export: the JSON chunk and, for a non-empty blob, the BIN chunk
\* padded to four bytes by GlbChunk::to_bytes.
build_glb_for_export(export_parse, export_blob) ==
    [json |-> export_parse,
     bin |-> IF export_blob = <<>> THEN None ELSE Some(Pad4(export_blob))]

\* WorkAsset::export
export(asset) ==
    LET Exported(p) ==
            IF ~p.ok THEN p
            ELSE Ok([glb |-> build_glb_for_export(p.val.root, p.val.blob),
                     default_tag |-> asset.default_tag,
                     metadata |-> p.val.metadata])
    IN Exported(prepare_for_export(asset))

-----------------------------------------------------------------------------
(* work_asset/meld.rs                                                       *)

\* A copy that appends the view and leaves the bytes behind.
copy_byte_view_without_bytes(base, foreign, foreign_ix) ==
    [ix |-> Len(base.parse.buffer_views),
     asset |-> [base EXCEPT
                  !.parse.buffer_views =
                      Append(@, [buffer |-> 0,
                                 byte_length |-> At(foreign.parse.buffer_views, foreign_ix).byte_length,
                                 byte_offset |-> Some(Len(Pad4(base.blob)))])]]

copy_byte_view(base, foreign, foreign_ix) ==
    push_buffer_view_from_slice(
        base, buffer_view_as_slice(foreign.blob, At(foreign.parse.buffer_views, foreign_ix)))

meld_in_image(base, other, other_ix) ==
    LET Pushed(key, new_object, copied) ==
            [asset |-> push_image(copied.asset, [new_object EXCEPT !.buffer_view = Some(copied.ix)],
                                  key),
             ix |-> Len(copied.asset.parse.images)]
        Found(key, found) ==
            IF IsSome(found) THEN [asset |-> base, ix |-> Unwrap(found)]
            ELSE Pushed(key, At(other.parse.images, other_ix),
                        copy_byte_view(base, other,
                                       Unwrap(At(other.parse.images, other_ix).buffer_view)))
    IN Found(At(other.image_keys, other_ix), image_ix(base, At(other.image_keys, other_ix)))

meld_in_sampler(base, other, other_ix) ==
    LET Found(key, found) ==
            IF IsSome(found) THEN [asset |-> base, ix |-> Unwrap(found)]
            ELSE [asset |-> push_sampler(base, At(other.parse.samplers, other_ix), key),
                  ix |-> Len(base.parse.samplers)]
    IN Found(At(other.sampler_keys, other_ix), sampler_ix(base, At(other.sampler_keys, other_ix)))

\* A meld that copies a texture and points it at the asset's first image.
meld_in_texture_unpatched(base, other, other_ix) ==
    LET Pushed(key, new_object, img) ==
            [asset |-> push_texture(img.asset,
                                    [new_object EXCEPT !.source = 0, !.sampler = None], key),
             ix |-> Len(img.asset.parse.textures)]
        Found(key, found, new_object) ==
            IF IsSome(found) THEN [asset |-> base, ix |-> Unwrap(found)]
            ELSE Pushed(key, new_object, meld_in_image(base, other, new_object.source))
    IN Found(At(other.texture_keys, other_ix), texture_ix(base, At(other.texture_keys, other_ix)),
             At(other.parse.textures, other_ix))

meld_in_texture(base, other, other_ix) ==
    LET Pushed(key, new_object, img, smp) ==
            [asset |-> push_texture(
                           smp.asset,
                           [new_object EXCEPT
                              !.source = img.ix,
                              !.sampler = IF IsSome(new_object.sampler) THEN Some(smp.ix) ELSE None],
                           key),
             ix |-> Len(smp.asset.parse.textures)]
        Sampled(key, new_object, img) ==
            Pushed(key, new_object, img,
                   IF IsSome(new_object.sampler)
                   THEN meld_in_sampler(img.asset, other, Unwrap(new_object.sampler))
                   ELSE [asset |-> img.asset, ix |-> 0])
        Found(key, found, new_object) ==
            IF IsSome(found) THEN [asset |-> base, ix |-> Unwrap(found)]
            ELSE Sampled(key, new_object, meld_in_image(base, other, new_object.source))
    IN Found(At(other.texture_keys, other_ix), texture_ix(base, At(other.texture_keys, other_ix)),
             At(other.parse.textures, other_ix))

\* One `if let Some(mut info) = new_object.<slot>` block of meld_in_material.
MeldSlot(st, other, slot) ==
    IF IsSome(st.material[slot])
    THEN LET Melded(info, r) ==
                 [asset |-> r.asset,
                  material |-> [st.material EXCEPT ![slot] = Some([info EXCEPT !.index = r.ix])]]
         IN Melded(Unwrap(st.material[slot]),
                   meld_in_texture(st.asset, other, Unwrap(st.material[slot]).index))
    ELSE st

\* The five blocks, in the order of the source.
RECURSIVE MeldSlots(_, _, _)
MeldSlots(st, other, slots) ==
    IF slots = <<>> THEN st ELSE MeldSlots(MeldSlot(st, other, Head(slots)), other, Tail(slots))

\* A meld that copies the material over without looking for its key.
meld_in_material_copying(base, other, other_ix) ==
    [asset |-> push_material(base, At(other.parse.materials, other_ix),
                             At(other.material_keys, other_ix)),
     ix |-> Len(base.parse.materials)]

meld_in_material(base, other, other_ix) ==
    LET Pushed(key, st) ==
            [asset |-> push_material(st.asset, st.material, key),
             ix |-> Len(st.asset.parse.materials)]
        Found(key, found) ==
            IF IsSome(found) THEN [asset |-> base, ix |-> Unwrap(found)]
            ELSE Pushed(key,
                        MeldSlots([asset |-> base, material |-> At(other.parse.materials, other_ix)],
                                  other,
                                  <<"normal_texture", "occlusion_texture", "emissive_texture",
                                    "base_color_texture", "metallic_roughness_texture">>))
    IN Found(At(other.material_keys, other_ix), material_ix(base, At(other.material_keys, other_ix)))

\* A primitive's tag map with the entry of its default material synthesized:
\* map is the stored map, primitive the one whose default material is read.
WithDefaultEntry(asset, map, primitive) ==
    IF IsSome(primitive.material) /\ asset.default_tag \notin DOMAIN map
    THEN MapPut(map, asset.default_tag, At(asset.material_keys, Unwrap(primitive.material)))
    ELSE map

\* `for other_tag in other_map.keys()`: tags is what is left to visit.
RECURSIVE MeldTags(_, _, _, _, _, _)
MeldTags(result, other, base_map, other_map, result_map, tags) ==
    IF tags = <<>> THEN Ok([asset |-> result, map |-> result_map])
    ELSE IF Head(tags) \in DOMAIN base_map
    THEN IF base_map[Head(tags)] # other_map[Head(tags)]
         THEN Err("Tag material mismatch")
         ELSE MeldTags(result, other, base_map, other_map, result_map, Tail(tags))
    ELSE LET Melded(other_material_key, other_material_ix) ==
                 IF IsSome(other_material_ix)
                 THEN MeldTags(meld_in_material(result, other, Unwrap(other_material_ix)).asset,
                               other, base_map, other_map,
                               MapPut(result_map, Head(tags), other_material_key), Tail(tags))
                 ELSE Err("Material key not found")
         IN Melded(other_map[Head(tags)], material_ix(other, other_map[Head(tags)]))

\* The body of `for primitive_ix in 0..other_primitives.len()`.
MeldPrimitive(result, base, other, base_mesh_ix, other_mesh_ix, primitive_ix, ord) ==
    LET Written(r) ==
            IF ~r.ok THEN r
            ELSE Ok([r.val.asset EXCEPT
                       !.mesh_primitive_variants[base_mesh_ix + 1][primitive_ix + 1] = r.val.map])
        Mapped(base_map, other_map) ==
            Written(MeldTags(result, other, base_map, other_map, base_map,
                             KeysInOrder(other_map, ord, 1)))
        Paired(other_primitive_ix) ==
            IF IsNone(other_primitive_ix)
            THEN Err("Melded asset has no equivalent to base primitive")
            ELSE Mapped(WithDefaultEntry(
                            base, variant_mapping(base, base_mesh_ix, primitive_ix),
                            At(At(base.parse.meshes, base_mesh_ix).primitives, primitive_ix)),
                        WithDefaultEntry(
                            other, variant_mapping(other, other_mesh_ix, primitive_ix),
                            At(At(other.parse.meshes, other_mesh_ix).primitives,
                               Unwrap(other_primitive_ix))))
    IN Paired(find_almost_equal_fingerprint(
                  At(other.mesh_primitive_fingerprints, other_mesh_ix),
                  At(At(base.mesh_primitive_fingerprints, base_mesh_ix), primitive_ix), None))

\* The primitives primitive_ix.. of other's mesh other_mesh_ix, then the meshes
\* after it.
RECURSIVE MeldFrom(_, _, _, _, _, _)
MeldFrom(result, base, other, other_mesh_ix, primitive_ix, ord) ==
    IF other_mesh_ix >= Len(other.mesh_keys) THEN Ok(result)
    ELSE LET Rest(r) ==
                 IF ~r.ok THEN r
                 ELSE MeldFrom(r.val, base, other, other_mesh_ix, primitive_ix + 1, ord)
             InMesh(base_mesh_ix) ==
                 IF IsNone(base_mesh_ix) THEN Err("meldd mesh has no corresponding mesh in base")
                 ELSE IF Len(At(base.parse.meshes, Unwrap(base_mesh_ix)).primitives)
                         # Len(At(other.parse.meshes, other_mesh_ix).primitives)
                 THEN Panic("primitive counts differ")
                 ELSE IF primitive_ix >= Len(At(other.parse.meshes, other_mesh_ix).primitives)
                 THEN MeldFrom(result, base, other, other_mesh_ix + 1, 0, ord)
                 ELSE Rest(MeldPrimitive(result, base, other, Unwrap(base_mesh_ix), other_mesh_ix,
                                         primitive_ix, ord))
         IN InMesh(mesh_ix(base, At(other.mesh_keys, other_mesh_ix)))

\* WorkAsset::meld, with ord the order in which the tag maps' keys are visited.
meld(base, other, ord) == MeldFrom(base, base, other, 0, 0, ord)

-----------------------------------------------------------------------------
(* variational_asset/mod.rs                                                 *)

\* A call that was not made.
NotRun == [ok |-> FALSE, val |-> <<>>, err |-> "not run", panic |-> FALSE]

VariationalAsset_from_slice(gltf, default_tag) ==
    LET Exported(loaded) == IF ~loaded.ok THEN loaded ELSE export(loaded.val)
    IN Exported(from_slice(gltf, default_tag))

\* The three WorkAssets of VariationalAsset::meld: the two it parses and the
\* one it melds (NotRun for a stage that was not reached).
MeldParsed(b, o, ord) ==
    IF ~b.ok THEN [base |-> b, other |-> NotRun, result |-> NotRun]
    ELSE IF ~o.ok THEN [base |-> b, other |-> o, result |-> NotRun]
    ELSE [base |-> b, other |-> o, result |-> meld(b.val, o.val, ord)]

MeldStages(base, other, ord) ==
    MeldParsed(from_slice(base.glb, Some(base.default_tag)),
               from_slice(other.glb, Some(other.default_tag)), ord)

\* What VariationalAsset::meld returns after the three stages.
MeldResult(st) ==
    IF ~st.base.ok THEN st.base
    ELSE IF ~st.other.ok THEN st.other
    ELSE IF ~st.result.ok THEN st.result
    ELSE export(st.result.val)

VariationalAsset_meld(base, other, ord) == MeldResult(MeldStages(base, other, ord))

-----------------------------------------------------------------------------
(* The input documents: glTF assets as an exporter writes them              *)

Geometry == <<9, 9, 9, 9>>
P1 == <<1>>
P2 == <<2, 2>>

Sampler(w) == [mag_filter |-> 0, min_filter |-> 0, wrap_s |-> w, wrap_t |-> w]
Texture(source, sampler) == [source |-> source, sampler |-> sampler]
Info(index) == Some([index |-> index, tex_coord |-> 0])
Material(factors, base_color, normal) ==
    [factors |-> factors, base_color_texture |-> base_color,
     metallic_roughness_texture |-> None, normal_texture |-> normal,
     occlusion_texture |-> None, emissive_texture |-> None]
Primitive(material, print, variants, other_ext) ==
    [material |-> material, print |-> print, variants |-> variants, other_ext |-> other_ext]
Mesh(name, primitives) == [name |-> name, primitives |-> primitives]
TagMap(t, ix) == MapPut(EmptyMap, t, ix)
TagMap2(t, ix, u, jx) == MapPut(TagMap(t, ix), u, jx)

\* The buffer views and the blob that hold the payloads, each appended as
\* add_buffer_view_from_slice appends it.
RECURSIVE StorePayloads(_, _, _)
StorePayloads(payloads, buffer_views, blob) ==
    IF payloads = <<>> THEN [buffer_views |-> buffer_views, blob |-> blob]
    ELSE LET r == add_buffer_view_from_slice(Head(payloads), buffer_views, blob)
         IN StorePayloads(Tail(payloads), r.buffer_views, r.blob)

\* The document of a description d: tag (the default_tag argument), fb (the
\* in-document default tag), table (the root variant table), payloads (one per
\* embedded image), uris (one per image kept in a file, after the embedded
\* ones), samplers, textures, materials, meshes.
MkInput(d) ==
    LET has_geometry == \E m \in 1..Len(d.meshes) : d.meshes[m].primitives # <<>>
        stored == StorePayloads((IF has_geometry THEN <<Geometry>> ELSE <<>>) \o d.payloads,
                                <<>>, <<>>)
        first_view == IF has_geometry THEN 1 ELSE 0
        lookup == [ix \in Indices(d.table) |-> At(d.table, ix)]
        prim(p) == write_variant_map(
                      [material |-> p.material, print |-> p.print, khr_ext |-> None,
                       other_ext |-> IF p.other_ext THEN Some("extra") ELSE None],
                      p.variants, lookup).val
        root == [extensions_used |-> IF d.table # <<>> THEN <<KHR_MATERIALS_VARIANTS>> ELSE <<>>,
                 fb_ext |-> IF IsSome(d.fb) THEN Some([default_tag |-> Unwrap(d.fb)]) ELSE None,
                 khr_ext |-> IF d.table # <<>>
                             THEN Some([variants |-> [i \in 1..Len(d.table) |-> [name |-> d.table[i]]]])
                             ELSE None,
                 buffers |-> set_root_buffer(Pad4(stored.blob)),
                 buffer_views |-> stored.buffer_views,
                 images |-> [i \in 1..Len(d.payloads) |->
                               [buffer_view |-> Some(first_view + i - 1),
                                mime_type |-> Some("image/png"), uri |-> None]]
                            \o [i \in 1..Len(d.uris) |->
                                  [buffer_view |-> None, mime_type |-> None, uri |-> Some(d.uris[i])]],
                 samplers |-> d.samplers,
                 textures |-> d.textures,
                 materials |-> d.materials,
                 meshes |-> [m \in 1..Len(d.meshes) |->
                               [name |-> d.meshes[m].name,
                                primitives |-> [p \in 1..Len(d.meshes[m].primitives) |->
                                                  prim(d.meshes[m].primitives[p])]]]]
    IN [json |-> root,
        bin |-> IF stored.blob = <<>> THEN None ELSE Some(Pad4(stored.blob)),
        tag |-> d.tag]

\* A description with one mesh "m".
Doc(tag, fb, table, payloads, samplers, textures, materials, primitives) ==
    [tag |-> tag, fb |-> fb, table |-> table, payloads |-> payloads, uris |-> <<>>,
     samplers |-> samplers,
     textures |-> textures, materials |-> materials,
     meshes |-> <<Mesh(Some("m"), primitives)>>]

\* The largest fingerprint of a geometry, in half tolerances.
MaxPrint == 3

OnePrim(material) == <<Primitive(material, 0, EmptyMap, FALSE)>>

\* Single-primitive assets of default tag t that differ in their material graph.
Plain(t, f) == Doc(Some(t), None, <<>>, <<>>, <<>>, <<>>, <<Material(f, None, None)>>,
                   OnePrim(Some(0)))
Textured(t, payload) ==
    Doc(Some(t), None, <<>>, <<payload>>, <<>>, <<Texture(0, None)>>,
        <<Material(1, Info(0), None)>>, OnePrim(Some(0)))
\* The base colour is the second texture, sampled, of the first image; the
\* normal map is the first texture, of the second image.
Offset(t) ==
    Doc(Some(t), None, <<>>, <<P1, P2>>, <<Sampler(1)>>,
        <<Texture(1, None), Texture(0, Some(0))>>,
        <<Material(1, Info(1), Info(0))>>, OnePrim(Some(0)))
\* More textures than images: the material's texture is the second texture.
Short(t) ==
    Doc(Some(t), None, <<>>, <<P1>>, <<>>, <<Texture(0, None), Texture(0, None)>>,
        <<Material(1, Info(1), None)>>, OnePrim(Some(0)))
\* Texture 0 reads image 1 and texture 1 reads image 0.
Swapped(t) ==
    Doc(Some(t), None, <<>>, <<P2, P1>>, <<>>, <<Texture(1, None), Texture(0, None)>>,
        <<Material(1, Info(0), None), Material(2, Info(0), Info(1))>>, OnePrim(Some(0)))
\* Two materials of one key; the primitive uses the second.
DupMaterial(t) ==
    Doc(Some(t), None, <<>>, <<>>, <<>>, <<>>, <<Material(1, None, None), Material(1, None, None)>>,
        OnePrim(Some(1)))
\* Two images of one payload.
DupImage(t) ==
    Doc(Some(t), None, <<>>, <<P1, P1>>, <<>>, <<Texture(0, None), Texture(1, None)>>,
        <<Material(1, Info(0), None), Material(2, Info(1), None)>>, OnePrim(Some(1)))
NoMaterial(t) == Doc(Some(t), None, <<>>, <<>>, <<>>, <<>>, <<Material(1, None, None)>>, OnePrim(None))
NoMesh(t) == [Plain(t, 1) EXCEPT !.meshes = <<>>]

\* Two primitives of prints x and y.
TwoPrimsA(x, y) ==
    Doc(Some("a"), None, <<>>, <<>>, <<>>, <<>>, <<Material(1, None, None), Material(2, None, None)>>,
        <<Primitive(Some(0), x, EmptyMap, FALSE), Primitive(Some(1), y, EmptyMap, FALSE)>>)
TwoPrimsB(x, y) ==
    Doc(Some("b"), None, <<>>, <<>>, <<>>, <<>>, <<Material(3, None, None)>>,
        <<Primitive(None, x, EmptyMap, FALSE), Primitive(Some(0), y, EmptyMap, FALSE)>>)

\* Two primitives that carry the variants extension: tag c selects material 1
\* on the primitive of print 0 of A; on B's primitives, listed in the other
\* order, it selects materials k0 and k1.
PermutedA ==
    Doc(Some("a"), None, <<"c">>, <<>>, <<>>, <<>>, <<Material(1, None, None), Material(2, None, None)>>,
        <<Primitive(Some(0), 0, TagMap("c", 1), FALSE),
          Primitive(Some(0), MaxPrint, EmptyMap, FALSE)>>)
PermutedB(k0, k1) ==
    Doc(Some("b"), None, <<"c">>, <<>>, <<>>, <<>>,
        <<Material(5, None, None), Material(2, None, None), Material(6, None, None)>>,
        <<Primitive(Some(0), MaxPrint, TagMap("c", k0), FALSE),
          Primitive(Some(0), 0, TagMap("c", k1), FALSE)>>)

\* Assets that carry the variants extension already: default tag t, a second
\* tag u on material 1.
Variational(t, u, other_ext) ==
    Doc(Some(t), Some(t), SortTags({t, u}), <<P1, P2>>, <<>>, <<Texture(0, None), Texture(1, None)>>,
        <<Material(2, Info(0), None), Material(1, Info(1), None)>>,
        <<Primitive(Some(0), 0, TagMap2(t, 0, u, 1), other_ext)>>)
\* The extension maps the default tag alone.
DefaultOnly(t, other_ext) ==
    Doc(None, Some(t), <<t>>, <<>>, <<>>, <<>>, <<Material(1, None, None)>>,
        <<Primitive(Some(0), 0, TagMap(t, 0), other_ext)>>)

\* The image of the material is kept in the file "p.png".
UriImage(t) ==
    [Doc(Some(t), None, <<>>, <<>>, <<>>, <<Texture(0, None)>>, <<Material(1, Info(0), None)>>,
         OnePrim(Some(0)))
       EXCEPT !.uris = <<"p.png">>]

\* A second mesh "n" that carries a variant of its own.
ExtraMesh(t) ==
    [Doc(Some(t), None, <<"c">>, <<>>, <<>>, <<>>, <<Material(1, None, None), Material(2, None, None)>>,
         OnePrim(Some(0)))
       EXCEPT !.meshes = Append(@, Mesh(Some("n"), <<Primitive(Some(0), 0, TagMap("c", 1), FALSE)>>))]
\* A mesh "k" before or after mesh "m".
StrayMesh(t, f, stray_first) ==
    [Plain(t, f) EXCEPT !.meshes = IF stray_first
                                   THEN <<Mesh(Some("k"), OnePrim(Some(0)))>> \o @
                                   ELSE Append(@, Mesh(Some("k"), OnePrim(Some(0))))]

\* The default_tag argument and the in-document default tag, each absent,
\* empty or a tag.
TagChoices == {None, Some(""), Some("a"), Some("b")}
Tagged(arg, fb) == [Plain("a", 1) EXCEPT !.tag = arg, !.fb = fb]

PrintPairs == (0..MaxPrint) \X (0..MaxPrint)

DescriptionsA ==
    {Plain("a", 1), Textured("a", P1), Textured("a", P2), Offset("a"), Swapped("a"),
     DupMaterial("a"), DupImage("a"), NoMaterial("a"), NoMesh("a"), Short("a"),
     Variational("a", "b", FALSE), DefaultOnly("a", TRUE), PermutedA, ExtraMesh("a"),
     UriImage("a")}
    \cup {TwoPrimsA(pr[1], pr[2]) : pr \in PrintPairs}
    \cup {Tagged(arg, fb) : arg \in TagChoices, fb \in TagChoices}

DescriptionsB ==
    {Plain("b", 1), Plain("b", 2), Plain("a", 2), Textured("b", P1), Textured("b", P2),
     Offset("b"), Swapped("b"), DupImage("b"), NoMaterial("b"), NoMesh("b"),
     Variational("b", "c", TRUE), Variational("a", "b", FALSE), DefaultOnly("b", FALSE),
     PermutedB(1, 2), PermutedB(2, 1), UriImage("b")}
    \cup {StrayMesh(x[1], x[2], sf) : x \in {<<"b", 1>>, <<"a", 2>>}, sf \in BOOLEAN}
    \cup {TwoPrimsB(pr[1], pr[2]) : pr \in PrintPairs}

DescriptionsC ==
    {Plain("c", 3), Textured("c", P2),
     Doc(Some("c"), None, <<>>, <<>>, <<>>, <<>>, <<Material(4, None, None)>>,
         <<Primitive(Some(0), 0, EmptyMap, FALSE), Primitive(Some(0), EPS_FINGERPRINT, EmptyMap, FALSE)>>)}

-----------------------------------------------------------------------------
(* The program: a caller that loads three assets and melds them, as          *)
(* test_pinecone_meld does; a call is made when its operands exist           *)

NoStages == [base |-> NotRun, other |-> NotRun, result |-> NotRun]

Init ==
    /\ inA \in {MkInput(d) : d \in DescriptionsA}
    /\ inB \in {MkInput(d) : d \in DescriptionsB}
    /\ inC \in {MkInput(d) : d \in DescriptionsC}
    /\ step = 0
    /\ lw = [a |-> NotRun, b |-> NotRun, c |-> NotRun]
    /\ va = [a |-> NotRun, b |-> NotRun, c |-> NotRun, ab |-> NotRun, abc |-> NotRun,
             c_ab |-> NotRun, bc |-> NotRun, a_bc |-> NotRun]
    /\ mw = [ab |-> NoStages, abc |-> NoStages, c_ab |-> NoStages, bc |-> NoStages,
             a_bc |-> NoStages]
    /\ glb = NotRun
    /\ slices = NotRun
    /\ codec = NotRun

\* VariationalAsset::from_slice(input, tag) into `name`.
Load(at, name, input) ==
    /\ step = at
    /\ \A n \in {"a", "b", "c"} : lw[n] = NotRun \/ lw[n].ok
    /\ LET Loaded(loaded) ==
               /\ lw' = [lw EXCEPT ![name] = loaded]
               /\ va' = [va EXCEPT ![name] = IF loaded.ok THEN export(loaded.val) ELSE loaded]
       IN Loaded(from_slice(input, input.tag))
    /\ step' = step + 1
    /\ UNCHANGED <<inA, inB, inC, mw, glb, slices, codec>>

\* A meld that works on its base operand in place: the outcome replaces it.
MeldInPlace(at, name, base, other) ==
    /\ step = at
    /\ va[base].ok /\ va[other].ok
    /\ LET Melded(stages) ==
               /\ mw' = [mw EXCEPT ![name] = stages]
               /\ va' = [va EXCEPT ![name] = MeldResult(stages), ![base] = MeldResult(stages)]
           Parsed(b, o) == \E ord \in TagOrders : Melded(MeldParsed(b, o, ord))
       IN Parsed(from_slice(va[base].val.glb, Some(va[base].val.default_tag)),
                 from_slice(va[other].val.glb, Some(va[other].val.default_tag)))
    /\ step' = step + 1
    /\ UNCHANGED <<inA, inB, inC, lw, glb, slices, codec>>

\* VariationalAsset::meld(va[base], va[other]) into `name`.
Meld(at, name, base, other) ==
    /\ step = at
    /\ va[base].ok /\ va[other].ok
    /\ LET Melded(stages) ==
               /\ mw' = [mw EXCEPT ![name] = stages]
               /\ va' = [va EXCEPT ![name] = MeldResult(stages)]
           Parsed(b, o) == \E ord \in TagOrders : Melded(MeldParsed(b, o, ord))
       IN Parsed(from_slice(va[base].val.glb, Some(va[base].val.default_tag)),
                 from_slice(va[other].val.glb, Some(va[other].val.default_tag)))
    /\ step' = step + 1
    /\ UNCHANGED <<inA, inB, inC, lw, glb, slices, codec>>

LoadA == Load(0, "a", inA)
LoadB == Load(1, "b", inB)
MeldAB == Meld(2, "ab", "a", "b")
LoadC == Load(3, "c", inC)
MeldABC == Meld(4, "abc", "ab", "c")
MeldCAB == Meld(5, "c_ab", "c", "ab")
MeldBC == Meld(6, "bc", "b", "c")
MeldABC2 == Meld(7, "a_bc", "a", "bc")

Next == LoadA \/ LoadB \/ MeldAB \/ LoadC \/ MeldABC \/ MeldCAB \/ MeldBC \/ MeldABC2

Spec == Init /\ [][Next]_vars

-----------------------------------------------------------------------------
(* The byte-level functions on their own: GlbChunk::to_bytes on chunks of   *)
(* given lengths, and add_buffer_view_from_slice over sequences of appends. *)

\* The longest payload given to to_bytes.
MaxChunkLen == 536870912
\* The number of appends a run makes.
MaxAppends == 3

\* Payload lengths: empty, unaligned, aligned, and lengths that bring the
\* container to just under 2^24 bytes, to 2^24 bytes and beyond.
ChunkLens == {0, 1, 3, 4, 16777192, 16777196, 16777216, MaxChunkLen}
\* The chunks given to to_bytes, of either kind in either place.
Chunks == {[kind |-> k, len |-> n] : k \in {"JSON", "BIN"}, n \in ChunkLens}

\* The byte slices appended: none of their bytes is 0x00.
Payloads == {<<>>, <<7>>, <<6, 7, 8, 9>>, <<5, 6, 7, 8, 9>>}

\* A blob and its views before the first append.
StartSlices ==
    {[blob |-> <<>>, buffer_views |-> <<>>, bytes |-> None, ixs |-> <<>>],
     [blob |-> <<3, 3>>,
      buffer_views |-> <<[buffer |-> 0, byte_length |-> 2, byte_offset |-> None]>>,
      bytes |-> None, ixs |-> <<>>]}

InitBytes ==
    /\ inA = NotRun /\ inB = NotRun /\ inC = NotRun
    /\ step = 0
    /\ lw = [a |-> NotRun, b |-> NotRun, c |-> NotRun]
    /\ va = [a |-> NotRun, b |-> NotRun, c |-> NotRun, ab |-> NotRun, abc |-> NotRun,
             c_ab |-> NotRun, bc |-> NotRun, a_bc |-> NotRun]
    /\ mw = [ab |-> NoStages, abc |-> NoStages, c_ab |-> NoStages, bc |-> NoStages,
             a_bc |-> NoStages]
    /\ glb \in {[json |-> j, bin |-> b, out |-> NotRun] :
                    j \in Chunks, b \in {None} \cup {Some(c) : c \in Chunks}}
    /\ slices \in StartSlices
    /\ codec = NotRun

\* GlbChunk::to_bytes(json, bin)
ToBytes ==
    /\ glb.out = NotRun
    /\ glb' = [glb EXCEPT !.out = to_bytes(glb.json, glb.bin)]
    /\ UNCHANGED <<inA, inB, inC, step, lw, va, mw, slices, codec>>

\* add_buffer_view_from_slice(bytes, &mut buffer_views, &mut blob)
AppendSlice ==
    /\ Len(slices.ixs) < MaxAppends
    /\ \E bytes \in Payloads :
          LET Added(r) ==
                  slices' = [blob |-> r.blob, buffer_views |-> r.buffer_views,
                             bytes |-> Some(bytes), ixs |-> Append(slices.ixs, r.ix)]
          IN Added(add_buffer_view_from_slice(bytes, slices.buffer_views, slices.blob))
    /\ UNCHANGED <<inA, inB, inC, step, lw, va, mw, glb, codec>>

NextBytes == ToBytes \/ AppendSlice

SpecBytes == InitBytes /\ [][NextBytes]_vars

-----------------------------------------------------------------------------
(* The primitive codec on its own: write_variant_map on a Tag -> material    *)
(* index map, then extract_variant_map on what was written.                 *)

\* The highest material index a map names.
MaxMaterialIx == 2

\* The primitive written to (with or without an earlier extension), the map
\* and the lookup: every map of tags a, b, c, the empty one included, and
\* every table that lists some or all of the three tags once, in any order.
CodecInputs ==
    {[primitive |-> [material |-> Some(0), print |-> 0, khr_ext |-> k, other_ext |-> Some("extra")],
      tag_to_ix |-> m,
      lookup |-> [ix \in Indices(t) |-> At(t, ix)],
      written |-> NotRun,
      read |-> NotRun] :
        k \in {None, Some([mappings |-> <<[material |-> 1, variants |-> <<0>>]>>])},
        m \in UNION {[T -> 0..MaxMaterialIx] : T \in SUBSET {"a", "b", "c"}},
        t \in {q \in UNION {[1..n -> {"a", "b", "c"}] : n \in 1..3} :
                 \A i, j \in DOMAIN q : i # j => q[i] # q[j]}}

InitCodec ==
    /\ inA = NotRun /\ inB = NotRun /\ inC = NotRun
    /\ step = 0
    /\ lw = [a |-> NotRun, b |-> NotRun, c |-> NotRun]
    /\ va = [a |-> NotRun, b |-> NotRun, c |-> NotRun, ab |-> NotRun, abc |-> NotRun,
             c_ab |-> NotRun, bc |-> NotRun, a_bc |-> NotRun]
    /\ mw = [ab |-> NoStages, abc |-> NoStages, c_ab |-> NoStages, bc |-> NoStages,
             a_bc |-> NoStages]
    /\ glb = NotRun
    /\ slices = NotRun
    /\ codec \in CodecInputs

\* write_variant_map(&mut primitive, &tag_to_ix, &variant_ix_lookup)
WriteMap ==
    /\ codec.written = NotRun
    /\ codec' = [codec EXCEPT
                   !.written = write_variant_map(codec.primitive, codec.tag_to_ix, codec.lookup)]
    /\ UNCHANGED <<inA, inB, inC, step, lw, va, mw, glb, slices>>

\* extract_variant_map(&primitive, &variant_ix_lookup) on the primitive written
ExtractMap ==
    /\ codec.written.ok
    /\ codec.read = NotRun
    /\ codec' = [codec EXCEPT !.read = extract_variant_map(codec.written.val, codec.lookup)]
    /\ UNCHANGED <<inA, inB, inC, step, lw, va, mw, glb, slices>>

NextCodec == WriteMap \/ ExtractMap

SpecCodec == InitCodec /\ [][NextCodec]_vars

-----------------------------------------------------------------------------
(* The melds of the caller: the result and its two operands                 *)

Operands == [ab |-> <<"a", "b">>, abc |-> <<"ab", "c">>, c_ab |-> <<"c", "ab">>,
             bc |-> <<"b", "c">>, a_bc |-> <<"a", "bc">>]
MeldNames == DOMAIN Operands
BaseOf(n) == Operands[n][1]
OtherOf(n) == Operands[n][2]

\* The tag set an asset's metadata reports.
TagsOf(asset) == asset.val.metadata.tags

-----------------------------------------------------------------------------
(* C1 *)

\* C1: whenever VariationalAsset::meld(A, B) succeeds, the tags its metadata
\* reports are tags(A) \cup tags(B) and its default tag is A's.
C1_MeldTagsAreUnion ==
    \A n \in MeldNames :
        va[n].ok =>
            /\ TagsOf(va[n]) = TagsOf(va[BaseOf(n)]) \cup TagsOf(va[OtherOf(n)])
            /\ va[n].val.default_tag = va[BaseOf(n)].val.default_tag

-----------------------------------------------------------------------------
(* C2 *)

\* C2: each of meld(meld(A,B),C), meld(A,meld(B,C)) and meld(C,meld(A,B)) that
\* succeeds reports the tags tags(A) \cup tags(B) \cup tags(C), and has the
\* default tag of its base.
C2_MeldOrderKeepsTags ==
    \A n \in {"abc", "a_bc", "c_ab"} :
        va[n].ok =>
            /\ TagsOf(va[n]) = TagsOf(va.a) \cup TagsOf(va.b) \cup TagsOf(va.c)
            /\ va[n].val.default_tag = va[IF n = "c_ab" THEN "c" ELSE "a"].val.default_tag

-----------------------------------------------------------------------------
(* C3 *)

\* The meshes meld pairs by mesh key, and the primitives it pairs by fingerprint.
PrimitivesOf(asset, m) == Indices(At(asset.parse.meshes, m).primitives)
MeshPairs(b, o) ==
    {x \in Indices(b.parse.meshes) \X Indices(o.parse.meshes) :
        mesh_ix(b, At(o.mesh_keys, x[2])) = Some(x[1])}
MatchOf(b, o, bm, om, p) ==
    find_almost_equal_fingerprint(At(o.mesh_primitive_fingerprints, om),
                                  At(At(b.mesh_primitive_fingerprints, bm), p), None)
MatchedPairs(b, o) ==
    UNION {{<<x[1], x[2], p, Unwrap(MatchOf(b, o, x[1], x[2], p))>> :
              p \in {pp \in PrimitivesOf(b, x[1]) : IsSome(MatchOf(b, o, x[1], x[2], pp))}} :
           x \in MeshPairs(b, o)}

\* A primitive's tag map, its synthesized default-tag entry included.
TagMapOf(asset, m, p) ==
    WithDefaultEntry(asset, variant_mapping(asset, m, p), At(At(asset.parse.meshes, m).primitives, p))

\* Every mesh of other has a mesh of base, of as many primitives, each matched.
Comparable(b, o) ==
    \A om \in Indices(o.parse.meshes) :
        \E x \in MeshPairs(b, o) :
            /\ x[2] = om
            /\ Len(At(b.parse.meshes, x[1]).primitives) = Len(At(o.parse.meshes, om).primitives)
            /\ \A p \in PrimitivesOf(b, x[1]) : IsSome(MatchOf(b, o, x[1], om, p))

\* Some matched pair maps a shared tag to different material keys.
Conflict(b, o) ==
    \E x \in MatchedPairs(b, o) :
        \E t \in (DOMAIN TagMapOf(b, x[1], x[3])) \cap (DOMAIN TagMapOf(o, x[2], x[4])) :
            TagMapOf(b, x[1], x[3])[t] # TagMapOf(o, x[2], x[4])[t]

\* The material keys a matched pair gives to a tag that base's map lacks.
UnsharedKeys(b, o) ==
    UNION {{TagMapOf(o, x[2], x[4])[t] :
              t \in (DOMAIN TagMapOf(o, x[2], x[4])) \ (DOMAIN TagMapOf(b, x[1], x[3]))} :
           x \in MatchedPairs(b, o)}

C3At(b, o, result) ==
    IF Conflict(b, o)
    THEN ~result.ok /\ result.err = "Tag material mismatch"
    ELSE /\ result.err # "Tag material mismatch"
         /\ result.ok =>
               \A i \in (Len(b.material_keys) + 1)..Len(result.val.material_keys) :
                   result.val.material_keys[i] \in UnsharedKeys(b, o)

\* C3: when a matched pair of primitives maps a shared tag to different material
\* keys, WorkAsset::meld fails with the tag/material conflict error; when every
\* shared tag agrees, there is no such error and the materials meld appends
\* are those of tags base's map lacks.
C3_ConflictIffSharedTagDiffers ==
    \A n \in MeldNames :
        (mw[n].other.ok /\ Comparable(mw[n].base.val, mw[n].other.val)) =>
            C3At(mw[n].base.val, mw[n].other.val, mw[n].result)

-----------------------------------------------------------------------------
(* C4 *)

KeySet(keys) == {keys[i] : i \in 1..Len(keys)}
Count(keys, k) == Cardinality({i \in 1..Len(keys) : keys[i] = k})

\* How many buffer views of the asset hold exactly these bytes.
CopiesInBlob(asset, bytes) ==
    Cardinality({i \in 1..Len(asset.parse.buffer_views) :
                    /\ ViewInBlob(asset.parse.buffer_views[i], asset.blob)
                    /\ buffer_view_as_slice(asset.blob, asset.parse.buffer_views[i]) = bytes})

\* The result holds one image object and one copy of the bytes of key k.
OneCopy(r, k) == Count(r.image_keys, k) = 1 /\ CopiesInBlob(r, k.sha1) = 1

\* Every image the result holds beyond base's is an image of other whose key
\* base lacks, held once, with one buffer view appended for it.
AppendedWhenAbsent(b, o, r) ==
    /\ \A k \in KeySet(r.image_keys) \ KeySet(b.image_keys) :
          k \in KeySet(o.image_keys) /\ OneCopy(r, k)
    /\ Len(r.parse.buffer_views) - Len(b.parse.buffer_views)
          = Len(r.image_keys) - Len(b.image_keys)

\* C4 as the spec states it: an image key that base and other share has exactly
\* one image object and one copy of its bytes in the melded asset, and the
\* bytes of other's images are appended only for keys the result lacks.
C4_ExactlyOneCopy ==
    \A n \in MeldNames :
        mw[n].result.ok =>
            /\ \A k \in KeySet(mw[n].base.val.image_keys) \cap KeySet(mw[n].other.val.image_keys) :
                  OneCopy(mw[n].result.val, k)
            /\ AppendedWhenAbsent(mw[n].base.val, mw[n].other.val, mw[n].result.val)

\* C4: meld adds no copy of an image base already holds: the melded asset has
\* as many image objects, and as many copies of the bytes, of every image key
\* of base as base has, and the bytes of other's images are appended only for
\* keys the result lacks, once each.
C4_MeldAddsNoCopy ==
    \A n \in MeldNames :
        mw[n].result.ok =>
            /\ \A k \in KeySet(mw[n].base.val.image_keys) :
                  /\ Count(mw[n].result.val.image_keys, k) = Count(mw[n].base.val.image_keys, k)
                  /\ CopiesInBlob(mw[n].result.val, k.sha1) = CopiesInBlob(mw[n].base.val, k.sha1)
            /\ AppendedWhenAbsent(mw[n].base.val, mw[n].other.val, mw[n].result.val)

\* One meld met a shared image key through a texture base lacks, and appended
\* another image.
C4_Witness ==
    \E n \in MeldNames :
        /\ mw[n].result.ok
        /\ \E i \in 1..Len(mw[n].result.val.texture_keys) :
              /\ mw[n].result.val.texture_keys[i] \notin KeySet(mw[n].base.val.texture_keys)
              /\ mw[n].result.val.texture_keys[i].source \in KeySet(mw[n].base.val.image_keys)
        /\ Len(mw[n].result.val.image_keys) > Len(mw[n].base.val.image_keys)

-----------------------------------------------------------------------------
(* C5 *)

\* The WorkAsset a VariationalAsset of the caller was exported from.
AssetNames == {"a", "b", "c"} \cup MeldNames
WorkAssetOf(n) == IF n \in MeldNames THEN mw[n].result ELSE lw[n]

\* The materials in use: every primitive's default material and every material
\* a tag selects on a primitive.
UsedMaterials(asset) ==
    UNION {UNION {(IF IsSome(At(At(asset.parse.meshes, m).primitives, p).material)
                   THEN {Unwrap(At(At(asset.parse.meshes, m).primitives, p).material)} ELSE {})
                  \cup {Unwrap(material_ix(asset, variant_mapping(asset, m, p)[t])) :
                          t \in DOMAIN variant_mapping(asset, m, p)} :
                  p \in PrimitivesOf(asset, m)} :
           m \in Indices(asset.parse.meshes)}

\* The images a material reaches: material -> texture -> image.
ImagesReached(asset, material) ==
    {At(asset.parse.textures, Unwrap(material[s]).index).source :
        s \in {x \in TextureSlots : IsSome(material[x])}}

ReachedBytes(asset) ==
    SumSizes([ix \in Indices(asset.parse.images) |-> image_size(asset, ix)],
             UNION {ImagesReached(asset, At(asset.parse.materials, mat)) : mat \in UsedMaterials(asset)})

\* C5: the total_sizes.texture_bytes of every exported asset is the sum of the
\* byte lengths of the distinct images its used materials reach through their
\* textures.
C5_TotalIsSumOfReachedImages ==
    \A n \in AssetNames :
        va[n].ok => va[n].val.metadata.total_sizes.texture_bytes = ReachedBytes(WorkAssetOf(n).val)

-----------------------------------------------------------------------------
(* C6 *)

\* C6: the GLB a meld of the caller produced is the GLB the same meld produces
\* under every order of visiting the entries of the tag maps.
C6_OutputIndependentOfMapOrder ==
    \A n \in MeldNames :
        va[n].ok =>
            \A ord \in TagOrders :
                MeldResult(MeldParsed(mw[n].base, mw[n].other, ord)) = va[n]

-----------------------------------------------------------------------------
(* C7 *)

\* from_slice(export(A).glb, A.default_tag)
RoundTrip(asset) ==
    LET Parsed(exported) ==
            IF ~exported.ok THEN exported
            ELSE from_slice(exported.val.glb, Some(asset.default_tag))
    IN Parsed(export(asset))

TagSetOf(asset) ==
    LET Tags_(exported) == IF exported.ok THEN exported.val.metadata.tags ELSE {}
    IN Tags_(export(asset))

SameAsset(w, r) ==
    /\ r.ok
    /\ r.val.default_tag = w.default_tag
    /\ TagSetOf(r.val) = TagSetOf(w)
    /\ r.val.mesh_primitive_variants = w.mesh_primitive_variants
    /\ r.val.material_keys = w.material_keys
    /\ r.val.image_keys = w.image_keys
    /\ r.val.texture_keys = w.texture_keys

\* C7: every WorkAsset of the caller that exports, loaded or melded, comes
\* back from from_slice(export(A).glb, A.default_tag) with A's default tag,
\* tag set, per-primitive tag maps and material, image and texture key tables.
C7_RoundTrip ==
    \A n \in AssetNames :
        va[n].ok => SameAsset(WorkAssetOf(n).val, RoundTrip(WorkAssetOf(n).val))

-----------------------------------------------------------------------------
(* C8 *)

\* The primitives of an asset's document: (mesh, primitive) indices.
Places(asset) ==
    UNION {{<<m, p>> : p \in PrimitivesOf(asset, m)} : m \in Indices(asset.parse.meshes)}
PrimitiveAt(root, pl) == At(At(root.meshes, pl[1]).primitives, pl[2])

\* The primitive's stored map has no tag other than the default tag.
NoVariantTag(asset, pl) ==
    (DOMAIN variant_mapping(asset, pl[1], pl[2])) \ {asset.default_tag} = {}

\* C8: in every exported document a primitive whose map has no non-default
\* tag carries no variants extension, and writing the empty map to a
\* primitive removes that extension and changes nothing else of it.
C8_NoExtensionWhenEmpty ==
    \A n \in AssetNames :
        va[n].ok =>
            \A pl \in Places(WorkAssetOf(n).val) :
                /\ NoVariantTag(WorkAssetOf(n).val, pl) =>
                      /\ PrimitiveAt(va[n].val.glb.json, pl).khr_ext = None
                      /\ PrimitiveAt(va[n].val.glb.json, pl).other_ext
                            = PrimitiveAt(WorkAssetOf(n).val.parse, pl).other_ext
                /\ write_variant_map(PrimitiveAt(va[n].val.glb.json, pl), EmptyMap, <<>>)
                      = Ok([PrimitiveAt(va[n].val.glb.json, pl) EXCEPT !.khr_ext = None])

\* An exported asset had a primitive that came with the variants extension and
\* another extension, and with no tag but the default tag; another exported
\* asset has a primitive that carries the variants extension.
C8_Witness ==
    /\ \E n \in AssetNames :
          /\ va[n].ok
          /\ \E pl \in Places(WorkAssetOf(n).val) :
                /\ NoVariantTag(WorkAssetOf(n).val, pl)
                /\ IsSome(PrimitiveAt(WorkAssetOf(n).val.parse, pl).khr_ext)
                /\ IsSome(PrimitiveAt(WorkAssetOf(n).val.parse, pl).other_ext)
    /\ \E n \in AssetNames :
          /\ va[n].ok
          /\ \E pl \in Places(WorkAssetOf(n).val) :
                IsSome(PrimitiveAt(va[n].val.glb.json, pl).khr_ext)

-----------------------------------------------------------------------------
(* C9 *)

InputOf(n) == IF n = "a" THEN inA ELSE IF n = "b" THEN inB ELSE inC
Loaded(n) == lw[n] # NotRun

MissingDefaultTag == "No default tag provided, and none found in asset"
DefaultTagMismatch == "Provided tag does not match extension tag"
EmptyDefaultTag == "Missing default_tag in FB_material_variants root extension"
TagErrors == {MissingDefaultTag, DefaultTagMismatch, EmptyDefaultTag}

\* Construction resolved the default tag to t.
ResolvedTo(w, t) == w.err \notin TagErrors /\ (w.ok => w.val.default_tag = t)

\* The four cases of the resolution, for argument arg and in-document tag doc.
FourCases(w, arg, doc) ==
    IF IsSome(arg) /\ IsSome(doc)
    THEN IF Unwrap(arg) = Unwrap(doc) THEN ResolvedTo(w, Unwrap(arg))
         ELSE ~w.ok /\ w.err = DefaultTagMismatch
    ELSE IF IsSome(arg) THEN ResolvedTo(w, Unwrap(arg))
    ELSE IF IsSome(doc) THEN ResolvedTo(w, Unwrap(doc))
    ELSE ~w.ok /\ w.err = MissingDefaultTag

DocTagOf(input) ==
    IF IsSome(input.json.fb_ext) THEN Some(Unwrap(input.json.fb_ext).default_tag) ELSE None

-----------------------------------------------------------------------------
(* C10 *)

\* C10: the default tag of every WorkAsset the caller constructed or melded
\* is not the empty string.
C10_DefaultTagNonEmpty ==
    \A n \in AssetNames : WorkAssetOf(n).ok => WorkAssetOf(n).val.default_tag # ""

-----------------------------------------------------------------------------
(* C11 *)

\* The WorkAsset VariationalAsset::meld parses from an operand.
ParsedFrom(v) == from_slice(v.val.glb, Some(v.val.default_tag))

\* The meld `n` was made in this step.
MeldMade(n) == mw[n] = NoStages /\ mw'[n] # NoStages

\* C11: a meld leaves both operands as they were, whether it returns a result
\* or an error: the operand assets of the caller are unchanged by the call,
\* the WorkAssets the call worked on are what the operands still parse to
\* after it, every other asset is untouched, and a failed meld hands out no
\* WorkAsset and no asset at all.
C11_MeldLeavesOperands ==
    [][\A n \in MeldNames :
          MeldMade(n) =>
              /\ va'[BaseOf(n)] = va[BaseOf(n)] /\ va'[OtherOf(n)] = va[OtherOf(n)]
              /\ mw'[n].base = ParsedFrom(va'[BaseOf(n)])
              /\ mw'[n].base.ok => mw'[n].other = ParsedFrom(va'[OtherOf(n)])
              /\ \A x \in AssetNames \ {n} : va'[x] = va[x]
              /\ \A x \in MeldNames \ {n} : mw'[x] = mw[x]
              /\ lw' = lw
              /\ ~mw'[n].result.ok => mw'[n].result.val = <<>> /\ ~va'[n].ok /\ va'[n].val = <<>>]_vars

\* A meld of two parsed operands returned an error, and a later meld a result.
C11_Witness ==
    /\ mw.ab.base.ok /\ mw.ab.other.ok /\ mw.ab.result.ok
    /\ mw.abc.base.ok /\ mw.abc.other.ok
    /\ ~mw.abc.result.ok /\ mw.abc.result.err = "Tag material mismatch"
    /\ va.ab.ok

-----------------------------------------------------------------------------
(* C12 *)

\* Some mesh of other and the mesh of base of the same key differ in their
\* number of primitives.
CountMismatch(b, o) ==
    \E x \in MeshPairs(b, o) :
        Len(At(b.parse.meshes, x[1]).primitives) # Len(At(o.parse.meshes, x[2]).primitives)

\* C12: a meld of two assets whose same-named meshes differ in their number
\* of primitives ends with an error value handed to the caller, never with a
\* panic.
C12_CountMismatchIsError ==
    \A n \in MeldNames :
        (mw[n].base.ok /\ mw[n].other.ok /\ CountMismatch(mw[n].base.val, mw[n].other.val)) =>
            /\ ~mw[n].result.ok /\ ~mw[n].result.panic
            /\ ~va[n].ok /\ ~va[n].panic

-----------------------------------------------------------------------------
(* C13 *)

UnmatchedMesh == "meldd mesh has no corresponding mesh in base"

\* The meshes of other whose key no mesh of base has.
Unmatched(b, o) == {om \in Indices(o.parse.meshes) : At(o.mesh_keys, om) \notin KeySet(b.mesh_keys)}
\* The meshes of base whose key no mesh of other has.
Uncountered(b, o) == {bm \in Indices(b.parse.meshes) : At(b.mesh_keys, bm) \notin KeySet(o.mesh_keys)}

\* other, cut down to its first k meshes.
FirstMeshes(o, k) ==
    [o EXCEPT !.parse.meshes = SubSeq(@, 1, k), !.mesh_keys = SubSeq(@, 1, k),
              !.mesh_primitive_fingerprints = SubSeq(@, 1, k),
              !.mesh_primitive_variants = SubSeq(@, 1, k)]

\* The meshes of other before its first unmatched one meld without failure.
ReachesUnmatched(b, o) ==
    LET first == CHOOSE om \in Unmatched(b, o) : \A x \in Unmatched(b, o) : om <= x
    IN meld(b, FirstMeshes(o, first), TagSeq).ok

\* A mesh of base without counterpart keeps its variant maps.
KeepsUncountered(b, o, r) ==
    \A bm \in Uncountered(b, o) :
        At(r.mesh_primitive_variants, bm) = At(b.mesh_primitive_variants, bm)

\* C13 as the spec states it: meld fails with the unmatched-mesh error iff
\* some mesh of other has a key that no mesh of base has, and a mesh of base
\* without counterpart keeps its maps.
C13_UnmatchedMeshIff ==
    \A n \in MeldNames :
        (mw[n].base.ok /\ mw[n].other.ok) =>
            /\ (~mw[n].result.ok /\ mw[n].result.err = UnmatchedMesh)
                   <=> Unmatched(mw[n].base.val, mw[n].other.val) # {}
            /\ mw[n].result.ok =>
                   KeepsUncountered(mw[n].base.val, mw[n].other.val, mw[n].result.val)

\* C13: a meld raises the unmatched-mesh error only if some mesh of other has
\* a key no mesh of base has; when there is such a mesh the meld fails, with
\* the unmatched-mesh error if the meshes of other before the first such mesh
\* meld without failure, and with the failure of an earlier mesh otherwise; a
\* mesh of base without counterpart keeps its maps in the result.
C13_UnmatchedMesh ==
    \A n \in MeldNames :
        (mw[n].base.ok /\ mw[n].other.ok) =>
            /\ mw[n].result.err = UnmatchedMesh
                   => Unmatched(mw[n].base.val, mw[n].other.val) # {}
            /\ Unmatched(mw[n].base.val, mw[n].other.val) # {} =>
                   /\ ~mw[n].result.ok
                   /\ ReachesUnmatched(mw[n].base.val, mw[n].other.val)
                         <=> mw[n].result.err = UnmatchedMesh
            /\ mw[n].result.ok =>
                   KeepsUncountered(mw[n].base.val, mw[n].other.val, mw[n].result.val)

\* A and B melded, and a mesh of A without counterpart in B kept its own
\* variant; a later meld failed on an unmatched mesh that comes after a
\* matched one.
C13_Witness ==
    /\ mw.ab.result.ok
    /\ \E bm \in Uncountered(mw.ab.base.val, mw.ab.other.val) :
          \E p \in PrimitivesOf(mw.ab.base.val, bm) :
              DOMAIN variant_mapping(mw.ab.result.val, bm, p) # {}
    /\ \E n \in MeldNames :
          /\ mw[n].result.err = UnmatchedMesh
          /\ 0 \notin Unmatched(mw[n].base.val, mw[n].other.val)

-----------------------------------------------------------------------------
(* C14 *)

\* base's map with the entries of other's map for the tags it lacks.
Merged(base_map, other_map) ==
    [t \in (DOMAIN base_map) \cup (DOMAIN other_map) |->
        IF t \in DOMAIN base_map THEN base_map[t] ELSE other_map[t]]

\* C14: in the result of a meld every base primitive of a matched mesh has a
\* primitive of other within the tolerance of its fingerprint, and its map is
\* its own map with the entries, stored or synthesized, of that primitive of
\* other, wherever in other's mesh that primitive sits.
C14_PairedByFingerprint ==
    \A n \in MeldNames :
        (mw[n].base.ok /\ mw[n].other.ok /\ mw[n].result.ok) =>
            /\ \A x \in MeshPairs(mw[n].base.val, mw[n].other.val) :
                  \A p \in PrimitivesOf(mw[n].base.val, x[1]) :
                      IsSome(MatchOf(mw[n].base.val, mw[n].other.val, x[1], x[2], p))
            /\ \A x \in MatchedPairs(mw[n].base.val, mw[n].other.val) :
                  variant_mapping(mw[n].result.val, x[1], x[3])
                     = Merged(TagMapOf(mw[n].base.val, x[1], x[3]),
                              TagMapOf(mw[n].other.val, x[2], x[4]))

-----------------------------------------------------------------------------
(* C15 *)

IsPrefix(s, t) == Len(s) <= Len(t) /\ SubSeq(t, 1, Len(s)) = s

\* r holds b's objects, keys and bytes first and unchanged.
Extends(b, r) ==
    /\ IsPrefix(b.parse.images, r.parse.images) /\ IsPrefix(b.image_keys, r.image_keys)
    /\ IsPrefix(b.parse.samplers, r.parse.samplers) /\ IsPrefix(b.sampler_keys, r.sampler_keys)
    /\ IsPrefix(b.parse.textures, r.parse.textures) /\ IsPrefix(b.texture_keys, r.texture_keys)
    /\ IsPrefix(b.parse.materials, r.parse.materials) /\ IsPrefix(b.material_keys, r.material_keys)
    /\ IsPrefix(b.parse.buffer_views, r.parse.buffer_views)
    /\ IsPrefix(b.blob, r.blob)
    /\ IsPrefix(b.mesh_keys, r.mesh_keys)
    /\ Len(b.parse.meshes) <= Len(r.parse.meshes)

\* r has b's meshes, primitives and fingerprints, nothing more.
SameGeometry(b, r) ==
    /\ r.mesh_keys = b.mesh_keys
    /\ r.mesh_primitive_fingerprints = b.mesh_primitive_fingerprints
    /\ \A pl \in Places(b) :
          /\ PrimitiveAt(r.parse, pl).material = PrimitiveAt(b.parse, pl).material
          /\ PrimitiveAt(r.parse, pl).print = PrimitiveAt(b.parse, pl).print
    /\ Places(r) = Places(b)

\* C15: the result of a meld holds base's images, samplers, textures,
\* materials, buffer views, key tables and blob bytes as a prefix of its own
\* and base's meshes verbatim; so does what a second meld makes of the result
\* once it is exported and parsed again.
C15_AppendOnly ==
    /\ \A n \in MeldNames :
          (mw[n].base.ok /\ mw[n].other.ok /\ mw[n].result.ok) =>
              /\ Extends(mw[n].base.val, mw[n].result.val)
              /\ mw[n].result.val.parse.meshes = mw[n].base.val.parse.meshes
              /\ SameGeometry(mw[n].base.val, mw[n].result.val)
    /\ (mw.ab.result.ok /\ mw.abc.base.ok) =>
          /\ Extends(mw.ab.result.val, mw.abc.base.val)
          /\ SameGeometry(mw.ab.result.val, mw.abc.base.val)
    /\ (mw.ab.result.ok /\ mw.abc.result.ok) =>
          /\ Extends(mw.ab.base.val, mw.abc.result.val)
          /\ SameGeometry(mw.ab.base.val, mw.abc.result.val)

\* Two melds in a row, the first of which appended an image and its bytes and
\* the second a material.
C15_Witness ==
    /\ mw.ab.result.ok /\ mw.abc.result.ok
    /\ mw.ab.base.val.parse.materials # <<>>
    /\ Len(mw.ab.result.val.parse.images) > Len(mw.ab.base.val.parse.images)
    /\ Len(mw.ab.result.val.blob) > Len(mw.ab.base.val.blob)
    /\ Len(mw.abc.result.val.parse.materials) > Len(mw.abc.base.val.parse.materials)

-----------------------------------------------------------------------------
(* C16 *)

\* The document declares at most one buffer, as long as the blob.
OneBuffer(root, blob) ==
    /\ Len(root.buffers) <= 1
    /\ Len(root.buffers) = 1 => root.buffers[1].byte_length = Len(blob)

\* C16: the document of every WorkAsset the caller constructed or melded, and
\* the document export wrote for it, declares at most one buffer, whose byte
\* length is the length of the WorkAsset's blob.
C16_OneBufferOfBlobLength ==
    /\ \A n \in AssetNames :
          WorkAssetOf(n).ok =>
              /\ OneBuffer(WorkAssetOf(n).val.parse, WorkAssetOf(n).val.blob)
              /\ va[n].ok => OneBuffer(va[n].val.glb.json, WorkAssetOf(n).val.blob)
    /\ \A n \in MeldNames :
          /\ mw[n].base.ok => OneBuffer(mw[n].base.val.parse, mw[n].base.val.blob)
          /\ mw[n].other.ok => OneBuffer(mw[n].other.val.parse, mw[n].other.val.blob)

-----------------------------------------------------------------------------
(* C17: key tables line up with the document                                *)

\* The table keys is what build_* computes from the asset's own document.
TableIs(keys, built) == built.ok /\ built.val = keys

\* Every key table of asset has one entry per object of its kind, and entry
\* i is the key of object i.
KeyTablesAligned(asset) ==
    /\ Len(asset.image_keys) = Len(asset.parse.images)
    /\ Len(asset.sampler_keys) = Len(asset.parse.samplers)
    /\ Len(asset.texture_keys) = Len(asset.parse.textures)
    /\ Len(asset.material_keys) = Len(asset.parse.materials)
    /\ Len(asset.mesh_keys) = Len(asset.parse.meshes)
    /\ TableIs(asset.image_keys, build_image_keys(asset.parse, asset.blob))
    /\ TableIs(asset.sampler_keys, build_sampler_keys(asset.parse))
    /\ TableIs(asset.texture_keys,
               build_texture_keys(asset.parse, asset.image_keys, asset.sampler_keys))
    /\ TableIs(asset.material_keys, build_material_keys(asset.parse, asset.texture_keys))
    /\ TableIs(asset.mesh_keys, build_mesh_keys(asset.parse))

\* C17: after construction and after any sequence of melds, for every kind
\* (image, sampler, texture, material, mesh) the key table is as long as the
\* document's list of that kind and entry i is the key of object i. Holds for
\* every constructed asset, every parsed meld operand and every meld result.
C17_KeyTablesAligned ==
    /\ \A n \in AssetNames : WorkAssetOf(n).ok => KeyTablesAligned(WorkAssetOf(n).val)
    /\ \A n \in MeldNames :
          /\ mw[n].base.ok => KeyTablesAligned(mw[n].base.val)
          /\ mw[n].other.ok => KeyTablesAligned(mw[n].other.val)

\* A meld of a meld whose results each gained an image, a sampler, a texture
\* and a material over their base.
C17_Witness ==
    /\ mw.ab.result.ok /\ mw.ab.base.ok
    /\ mw.abc.result.ok /\ mw.abc.base.ok
    /\ Len(mw.ab.result.val.image_keys) > Len(mw.ab.base.val.image_keys)
    /\ Len(mw.ab.result.val.sampler_keys) > Len(mw.ab.base.val.sampler_keys)
    /\ Len(mw.ab.result.val.texture_keys) > Len(mw.ab.base.val.texture_keys)
    /\ Len(mw.ab.result.val.material_keys) > Len(mw.ab.base.val.material_keys)
    /\ Len(mw.abc.result.val.material_keys) > Len(mw.abc.base.val.material_keys)

-----------------------------------------------------------------------------
(* C18: the header's length field                                           *)

\* The number a little-endian 32-bit field holds.
LeValue(b) == b[1] + 256 * b[2] + 65536 * b[3] + 16777216 * b[4]

\* What a chunk takes in the container: 8 bytes and its payload padded to a
\* multiple of 4; nothing when it is empty or absent.
ChunkSize(chunk) ==
    IF IsNone(chunk) \/ Unwrap(chunk).len = 0 THEN 0
    ELSE 8 + Unwrap(chunk).len + ((4 - (Unwrap(chunk).len % 4)) % 4)

ToBytesDone == glb # NotRun /\ glb.out # NotRun /\ glb.out.ok

\* C18: GlbChunk::to_bytes emits a 12-byte header whose bytes 8..11 are the
\* total length of the produced byte sequence as a little-endian 32-bit
\* integer, for every total length representable in 32 bits.
C18_HeaderHoldsTotalLength ==
    ToBytesDone =>
        /\ Len(glb.out.val.head) = 12
        /\ glb.out.val.len = 12 + ChunkSize(Some(glb.json)) + ChunkSize(glb.bin)
        /\ LeValue(SubSeq(glb.out.val.head, 9, 12)) = glb.out.val.len

-----------------------------------------------------------------------------
(* C19: appending to the blob                                               *)

\* One call took `before` to `after`: the blob was padded with 0x00 to a multiple
\* of 4, the payload after.bytes follows, the one added view covers exactly the
\* payload, everything earlier is as it was, and the index returned is the
\* number of views before the call.
AppendedTo(before, after) ==
    LET Placed(view, bytes) ==
            /\ view.buffer = 0
            /\ IsSome(view.byte_offset)
            /\ Unwrap(view.byte_offset) % 4 = 0
            /\ view.byte_length = Len(bytes)
            /\ Len(before.blob) <= Unwrap(view.byte_offset)
            /\ Unwrap(view.byte_offset) < Len(before.blob) + 4
            /\ Len(after.blob) = Unwrap(view.byte_offset) + Len(bytes)
            /\ \A i \in 1..Len(before.blob) : after.blob[i] = before.blob[i]
            /\ \A i \in (Len(before.blob) + 1)..Unwrap(view.byte_offset) : after.blob[i] = 0
            /\ \A i \in 1..Len(bytes) : after.blob[Unwrap(view.byte_offset) + i] = bytes[i]
    IN /\ IsSome(after.bytes)
       /\ Len(after.buffer_views) = Len(before.buffer_views) + 1
       /\ \A i \in 1..Len(before.buffer_views) : after.buffer_views[i] = before.buffer_views[i]
       /\ Placed(after.buffer_views[Len(after.buffer_views)], Unwrap(after.bytes))
       /\ after.ixs = Append(before.ixs, Len(before.buffer_views))
       /\ \A i, j \in 1..Len(after.ixs) : i < j => after.ixs[i] < after.ixs[j]

\* C19: over any sequence of appends, each call of add_buffer_view_from_slice
\* first pads the blob with 0x00 to a 4-byte boundary, creates a view whose
\* offset is a multiple of 4 and whose length is exactly the payload's,
\* leaves all earlier blob bytes and earlier views unchanged, and returns the
\* number of views before the call, so returned indices strictly increase.
C19_AppendPadsAndIndexes == [][slices' # slices => AppendedTo(slices, slices')]_vars

\* Three appends were made to a blob that began unaligned; one of the later
\* ones needed padding and one payload was empty.
C19_Witness ==
    /\ slices # NotRun
    /\ Len(slices.ixs) = 3
    /\ Len(slices.blob) > 0 /\ slices.blob[1] = 3
    /\ \E i \in 2..Len(slices.buffer_views) : slices.buffer_views[i].byte_length = 0
    /\ \E i \in 3..Len(slices.buffer_views) :
          /\ slices.buffer_views[i].byte_length > 0
          /\ Unwrap(slices.buffer_views[i].byte_offset) > 0
          /\ slices.blob[Unwrap(slices.buffer_views[i].byte_offset)] = 0

-----------------------------------------------------------------------------
(* C20: the extension's name in extensionsUsed                              *)

\* The root extensionsUsed list of the output of an export.
UsedBy(n) == va[n].val.glb.json.extensions_used

\* C20: after export, and after any number of export -> from_slice -> meld ->
\* export cycles, the root extensionsUsed list of the output contains the
\* variants extension name, KHR_materials_variants, exactly once.
C20_ExtensionNameOnce ==
    \A n \in AssetNames : va[n].ok => Count(UsedBy(n), KHR_MATERIALS_VARIANTS) = 1

-----------------------------------------------------------------------------
(* C21: the default tag in a primitive's written mappings                   *)

\* The (tag, material index) pairs a primitive of an exported document
\* carries, read off its mappings and the document's variant table.
WrittenPairs(root, primitive) ==
    IF IsNone(primitive.khr_ext) THEN {}
    ELSE UNION {{<<At(Unwrap(root.khr_ext).variants, e.variants[i]).name, e.material>> :
                    i \in 1..Len(e.variants)} :
                 e \in {Unwrap(primitive.khr_ext).mappings[k] :
                          k \in 1..Len(Unwrap(primitive.khr_ext).mappings)}}

\* C21: on export, for every primitive, the pair default_tag -> default
\* material index is written into the primitive's extension mapping if and
\* only if the primitive has a default material and at least one non-default
\* tag is mapped on that primitive; when written, the index equals the
\* primitive's default material field.
C21_DefaultPairWritten ==
    \A n \in AssetNames :
        va[n].ok =>
            \A pl \in Places(WorkAssetOf(n).val) :
                LET Checked(asset, primitive, pairs) ==
                        /\ (\E pr \in pairs : pr[1] = asset.default_tag)
                              <=> (IsSome(primitive.material) /\ ~NoVariantTag(asset, pl))
                        /\ \A pr \in pairs :
                              pr[1] = asset.default_tag =>
                                  /\ IsSome(primitive.material)
                                  /\ pr[2] = Unwrap(primitive.material)
                                  /\ PrimitiveAt(va[n].val.glb.json, pl).material = primitive.material
                IN Checked(WorkAssetOf(n).val, PrimitiveAt(WorkAssetOf(n).val.parse, pl),
                           WrittenPairs(va[n].val.glb.json, PrimitiveAt(va[n].val.glb.json, pl)))

\* Exported: a primitive with a default material and a non-default tag, whose
\* mappings carry the default pair; a primitive with a default material and no
\* other tag; and a primitive with a non-default tag and no default material.
C21_Witness ==
    /\ \E n \in AssetNames :
          /\ va[n].ok
          /\ \E pl \in Places(WorkAssetOf(n).val) :
                /\ IsSome(PrimitiveAt(WorkAssetOf(n).val.parse, pl).material)
                /\ ~NoVariantTag(WorkAssetOf(n).val, pl)
                /\ \E pr \in WrittenPairs(va[n].val.glb.json, PrimitiveAt(va[n].val.glb.json, pl)) :
                      pr[1] = va[n].val.default_tag
    /\ \E n \in AssetNames :
          /\ va[n].ok
          /\ \E pl \in Places(WorkAssetOf(n).val) :
                /\ IsSome(PrimitiveAt(WorkAssetOf(n).val.parse, pl).material)
                /\ NoVariantTag(WorkAssetOf(n).val, pl)
    /\ \E n \in AssetNames :
          /\ va[n].ok
          /\ \E pl \in Places(WorkAssetOf(n).val) :
                /\ IsNone(PrimitiveAt(WorkAssetOf(n).val.parse, pl).material)
                /\ ~NoVariantTag(WorkAssetOf(n).val, pl)

-----------------------------------------------------------------------------
(* C22: reuse without growth                                                *)

\* Every material other's new tags select has its key in base's key table.
AllKeysHeld(b, o) == UnsharedKeys(b, o) \subseteq KeySet(b.material_keys)

\* The result holds the objects, the views and the bytes of base, and no more.
NothingAppended(b, r) ==
    /\ r.parse.materials = b.parse.materials /\ r.material_keys = b.material_keys
    /\ r.parse.textures = b.parse.textures /\ r.texture_keys = b.texture_keys
    /\ r.parse.images = b.parse.images /\ r.image_keys = b.image_keys
    /\ r.parse.samplers = b.parse.samplers /\ r.sampler_keys = b.sampler_keys
    /\ r.parse.buffer_views = b.parse.buffer_views
    /\ r.blob = b.blob

\* Every material other's new tags select is one base already uses: the key
\* resolves to a material that a primitive of base has as its default or
\* under a tag.
AllKeysInUse(b, o) ==
    \A k \in UnsharedKeys(b, o) :
        IsSome(material_ix(b, k)) /\ Unwrap(material_ix(b, k)) \in UsedMaterials(b)

TotalBytes(n) == va[n].val.metadata.total_sizes.texture_bytes

\* C22 as the spec states it: if every material that other's new tags select
\* has a meld key already present in the material key table, meld appends no
\* material, texture, image, sampler or buffer view and does not lengthen the
\* blob, and the melded asset's total texture bytes equal base's.
C22_ReuseKeepsTotal ==
    \A n \in MeldNames :
        (mw[n].result.ok /\ AllKeysHeld(mw[n].base.val, mw[n].other.val)) =>
            /\ NothingAppended(mw[n].base.val, mw[n].result.val)
            /\ va[n].ok => TotalBytes(n) = TotalBytes(BaseOf(n))

\* C22, amended: under the same condition meld appends nothing and does not
\* lengthen the blob, this includes meld(A, A); the total texture bytes equal
\* base's when each of those materials is one base already uses.
C22_ReuseWithoutGrowth ==
    \A n \in MeldNames :
        (mw[n].result.ok /\ AllKeysHeld(mw[n].base.val, mw[n].other.val)) =>
            /\ NothingAppended(mw[n].base.val, mw[n].result.val)
            /\ (va[n].ok /\ AllKeysInUse(mw[n].base.val, mw[n].other.val)) =>
                  TotalBytes(n) = TotalBytes(BaseOf(n))

\* A meld gave a primitive a new tag whose material base already held and
\* used, and its result was exported; and an asset was melded with itself.
C22_Witness ==
    /\ \E n \in MeldNames :
          /\ mw[n].result.ok /\ va[n].ok
          /\ UnsharedKeys(mw[n].base.val, mw[n].other.val) # {}
          /\ AllKeysHeld(mw[n].base.val, mw[n].other.val)
          /\ AllKeysInUse(mw[n].base.val, mw[n].other.val)
          /\ TotalBytes(n) > 0
    /\ inA = inB /\ mw.ab.result.ok /\ va.ab.ok

-----------------------------------------------------------------------------
(* C23: an asset without variants                                           *)

\* No primitive of the asset maps a tag other than the default tag.
NonVariational(asset) == \A pl \in Places(asset) : NoVariantTag(asset, pl)

\* Some primitive of the asset has a default material.
HasDefaultMaterial(asset) ==
    \E pl \in Places(asset) : IsSome(PrimitiveAt(asset.parse, pl).material)

VariationalBytes(n) == va[n].val.metadata.variational_sizes.texture_bytes

\* C23 as the spec states it: for an asset in which no primitive maps any tag
\* other than the default tag, export reports variational texture bytes 0 and
\* the tag set {default_tag}.
C23_TagSetIsDefaultTag ==
    \A n \in AssetNames :
        (va[n].ok /\ NonVariational(WorkAssetOf(n).val)) =>
            /\ VariationalBytes(n) = 0
            /\ TagsOf(va[n]) = {va[n].val.default_tag}

\* C23, amended: for such an asset export reports variational texture bytes
\* 0, so the variational bytes are non-zero only when some primitive carries
\* a non-default tag; the tag set is {default_tag} when some primitive has a
\* default material, and empty when none has.
C23_NoVariantsNoVariationalBytes ==
    \A n \in AssetNames :
        (va[n].ok /\ NonVariational(WorkAssetOf(n).val)) =>
            /\ VariationalBytes(n) = 0
            /\ TagsOf(va[n]) = IF HasDefaultMaterial(WorkAssetOf(n).val)
                               THEN {va[n].val.default_tag} ELSE {}

\* A loaded asset without variants whose textures have bytes, and a melded
\* asset whose variational bytes are not zero.
C23_Witness ==
    /\ va.a.ok /\ NonVariational(lw.a.val) /\ HasDefaultMaterial(lw.a.val)
    /\ TotalBytes("a") > 0 /\ VariationalBytes("a") = 0
    /\ va.ab.ok /\ VariationalBytes("ab") > 0

-----------------------------------------------------------------------------
(* C24: the primitive codec's round trip                                    *)

\* The lookup lists every tag of the map.
Covers(lookup, m) == \A t \in DOMAIN m : \E ix \in DOMAIN lookup : lookup[ix] = t

\* The mappings hold each material once, ascending, each with its variant
\* indices ascending, and say of the tags exactly what m says.
MappingsOf(mappings, lookup, m) ==
    /\ \A i, j \in 1..Len(mappings) : i < j => mappings[i].material < mappings[j].material
    /\ \A i \in 1..Len(mappings) :
          /\ mappings[i].variants # <<>>
          /\ \A j, k \in 1..Len(mappings[i].variants) :
                j < k => mappings[i].variants[j] < mappings[i].variants[k]
    /\ {<<lookup[mappings[i].variants[j]], mappings[i].material>> :
           <<i, j>> \in UNION {{<<ii, jj>> : jj \in 1..Len(mappings[ii].variants)} :
                                 ii \in 1..Len(mappings)}}
          = {<<t, m[t]>> : t \in DOMAIN m}

\* C24: for any non-empty Tag -> material-index map m and any lookup that is
\* a bijection covering m's tags, extract_variant_map(write_variant_map(m)) =
\* m; the written mappings contain each material index in exactly one entry,
\* entries are ordered ascending by material and each entry's variant list
\* is ascending; nothing else of the primitive changes.
C24_CodecRoundTrip ==
    (codec # NotRun /\ DOMAIN codec.tag_to_ix # {} /\ Covers(codec.lookup, codec.tag_to_ix)) =>
        /\ codec.written # NotRun =>
              /\ codec.written.ok
              /\ IsSome(codec.written.val.khr_ext)
              /\ MappingsOf(Unwrap(codec.written.val.khr_ext).mappings, codec.lookup,
                            codec.tag_to_ix)
              /\ codec.written.val
                    = [codec.primitive EXCEPT !.khr_ext = codec.written.val.khr_ext]
        /\ codec.read # NotRun => codec.read = Ok(codec.tag_to_ix)

\* A map of three tags with two of them on one material, written under a
\* lookup that does not list the tags in their sorted order, and read back.
C24_Witness ==
    /\ codec # NotRun
    /\ codec.read # NotRun /\ codec.read.ok
    /\ DOMAIN codec.tag_to_ix = {"a", "b", "c"}
    /\ codec.tag_to_ix["a"] = codec.tag_to_ix["c"]
    /\ codec.tag_to_ix["b"] < codec.tag_to_ix["a"]
    /\ codec.lookup[0] = "c" /\ codec.lookup[1] = "b"
    /\ IsSome(codec.primitive.khr_ext)

-----------------------------------------------------------------------------
(* C25: the stored variant maps                                             *)

\* Every key of every primitive's map is in the material key table, and an
\* entry of the default tag is the key of the primitive's default material.
VariantsCoherent(asset) ==
    \A pl \in Places(asset) :
        /\ \A t \in DOMAIN variant_mapping(asset, pl[1], pl[2]) :
              variant_mapping(asset, pl[1], pl[2])[t] \in KeySet(asset.material_keys)
        /\ asset.default_tag \in DOMAIN variant_mapping(asset, pl[1], pl[2]) =>
              /\ IsSome(PrimitiveAt(asset.parse, pl).material)
              /\ InRange(asset.material_keys, Unwrap(PrimitiveAt(asset.parse, pl).material))
              /\ variant_mapping(asset, pl[1], pl[2])[asset.default_tag]
                    = At(asset.material_keys, Unwrap(PrimitiveAt(asset.parse, pl).material))

\* C25: after construction and after any sequence of successful melds, for
\* every primitive P of every mesh M, each material key in variants[M][P] is
\* present in the asset's material key table, and variants[M][P] has an entry
\* for default_tag only if P has a default material and the entry's key is
\* the key of that default material.
C25_VariantsCoherent ==
    \A n \in AssetNames : WorkAssetOf(n).ok => VariantsCoherent(WorkAssetOf(n).val)

-----------------------------------------------------------------------------
(* C26: fingerprints within a mesh                                          *)

\* Two distinct primitives of one mesh of the document have prints that
\* differ by less than the tolerance.
Colliding(root) ==
    \E m \in 1..Len(root.meshes) :
        \E p, q \in 1..Len(root.meshes[m].primitives) :
            /\ p # q
            /\ Abs(root.meshes[m].primitives[p].print - root.meshes[m].primitives[q].print)
                  < EPS_FINGERPRINT

\* The asset's fingerprints are those of its primitives, and within each mesh
\* any two of them differ by the tolerance or more.
Distinguishable(asset) ==
    /\ asset.mesh_primitive_fingerprints = build_fingerprints(asset.parse)
    /\ ~Colliding(asset.parse)

\* C26: construction rejects any asset in which two distinct primitives of
\* the same mesh have fingerprints differing by less than the tolerance, so
\* every constructed WorkAsset and every meld result has pairwise
\* distinguishable fingerprints within each mesh; primitives of different
\* meshes are not compared.
C26_FingerprintsDistinguishable ==
    /\ \A n \in {"a", "b", "c"} :
          (lw[n] # NotRun /\ Colliding(InputOf(n).json)) => ~lw[n].ok
    /\ \A n \in AssetNames : WorkAssetOf(n).ok => Distinguishable(WorkAssetOf(n).val)
    /\ \A n \in MeldNames :
          /\ mw[n].base.ok => Distinguishable(mw[n].base.val)
          /\ mw[n].other.ok => Distinguishable(mw[n].other.val)
          /\ mw[n].result.ok =>
                mw[n].result.val.mesh_primitive_fingerprints
                    = mw[n].base.val.mesh_primitive_fingerprints

\* An asset with the same print in two different meshes was constructed; the
\* next was rejected for two close prints in one mesh.
C26_Witness ==
    /\ lw.a.ok
    /\ \E m1, m2 \in 1..Len(lw.a.val.parse.meshes) :
          /\ m1 # m2
          /\ lw.a.val.mesh_primitive_fingerprints[m1][1] = lw.a.val.mesh_primitive_fingerprints[m2][1]
    /\ lw.b # NotRun /\ ~lw.b.ok
    /\ lw.b.err = "Can't cope with primitives being identical"
    /\ Colliding(inB.json)

-----------------------------------------------------------------------------
(* C27: the keys of what meld copied                                        *)

\* Each texture's stored key is the key derived from the stored keys of its
\* image and sampler, and each material's stored key the key derived from its
\* factors and the stored keys of its textures.
StoredKeysDerive(r) ==
    /\ \A i \in 1..Len(r.parse.textures) :
          texture_build_meld_key(r.image_keys, r.sampler_keys, r.parse.textures[i])
              = Ok(r.texture_keys[i])
    /\ \A i \in 1..Len(r.parse.materials) :
          material_build_meld_key(r.texture_keys, r.parse.materials[i]) = Ok(r.material_keys[i])

\* Some texture of other has the key of the result's texture t, and what t
\* refers to in the result has the keys of what that one refers to in other.
TextureFrom(o, r, t) ==
    \E u \in 1..Len(o.parse.textures) :
        /\ o.texture_keys[u] = r.texture_keys[t]
        /\ At(r.image_keys, r.parse.textures[t].source)
              = At(o.image_keys, o.parse.textures[u].source)
        /\ IsSome(r.parse.textures[t].sampler) = IsSome(o.parse.textures[u].sampler)
        /\ IsSome(r.parse.textures[t].sampler) =>
              At(r.sampler_keys, Unwrap(r.parse.textures[t].sampler))
                  = At(o.sampler_keys, Unwrap(o.parse.textures[u].sampler))

\* The same for the result's material m and the textures of its five slots.
MaterialFrom(o, r, m) ==
    \E u \in 1..Len(o.parse.materials) :
        /\ o.material_keys[u] = r.material_keys[m]
        /\ \A s \in TextureSlots :
              /\ IsSome(r.parse.materials[m][s]) = IsSome(o.parse.materials[u][s])
              /\ IsSome(r.parse.materials[m][s]) =>
                    At(r.texture_keys, Unwrap(r.parse.materials[m][s]).index)
                        = At(o.texture_keys, Unwrap(o.parse.materials[u][s]).index)

\* C27: after any sequence of melds, for every texture in the result its
\* stored key equals the key derived from the stored keys of the sampler and
\* image it references in the result, and for every material its stored key
\* equals the key derived from its own factors and the stored keys of the
\* textures it references in the result; every index patched into a cloned
\* material or texture points to an object with the same key as the object
\* it referenced in other.
C27_PatchedIndicesKeepKeys ==
    \A n \in MeldNames :
        mw[n].result.ok =>
            /\ StoredKeysDerive(mw[n].result.val)
            /\ \A t \in (Len(mw[n].base.val.texture_keys) + 1)..Len(mw[n].result.val.texture_keys) :
                  TextureFrom(mw[n].other.val, mw[n].result.val, t)
            /\ \A m \in (Len(mw[n].base.val.material_keys) + 1)..Len(mw[n].result.val.material_keys) :
                  MaterialFrom(mw[n].other.val, mw[n].result.val, m)

\* A meld copied a material whose texture, and a texture whose image, has
\* another index in the result than it had in other, and a texture with a
\* sampler.
C27_Witness ==
    \E n \in MeldNames :
        /\ mw[n].result.ok
        /\ \E m \in (Len(mw[n].base.val.material_keys) + 1)..Len(mw[n].result.val.material_keys) :
              \E u \in 1..Len(mw[n].other.val.parse.materials) :
                  /\ mw[n].other.val.material_keys[u] = mw[n].result.val.material_keys[m]
                  /\ IsSome(mw[n].result.val.parse.materials[m].base_color_texture)
                  /\ mw[n].result.val.parse.materials[m].base_color_texture
                        # mw[n].other.val.parse.materials[u].base_color_texture
        /\ \E t \in (Len(mw[n].base.val.texture_keys) + 1)..Len(mw[n].result.val.texture_keys) :
              \E u \in 1..Len(mw[n].other.val.parse.textures) :
                  /\ mw[n].other.val.texture_keys[u] = mw[n].result.val.texture_keys[t]
                  /\ mw[n].result.val.parse.textures[t].source
                        # mw[n].other.val.parse.textures[u].source
        /\ \E t \in (Len(mw[n].base.val.texture_keys) + 1)..Len(mw[n].result.val.texture_keys) :
              IsSome(mw[n].result.val.parse.textures[t].sampler)

-----------------------------------------------------------------------------
(* C28: what the result's indices refer to                                  *)

\* Every stored index is below the count of what it indexes, and every
\* buffer view lies within the blob.
RefsInRange(r) ==
    /\ \A i \in 1..Len(r.parse.materials) :
          \A s \in TextureSlots :
              IsSome(r.parse.materials[i][s]) =>
                  InRange(r.parse.textures, Unwrap(r.parse.materials[i][s]).index)
    /\ \A i \in 1..Len(r.parse.textures) :
          /\ InRange(r.parse.images, r.parse.textures[i].source)
          /\ IsSome(r.parse.textures[i].sampler) =>
                InRange(r.parse.samplers, Unwrap(r.parse.textures[i].sampler))
    /\ \A i \in 1..Len(r.parse.images) :
          /\ IsSome(r.parse.images[i].buffer_view)
          /\ InRange(r.parse.buffer_views, Unwrap(r.parse.images[i].buffer_view))
    /\ \A i \in 1..Len(r.parse.buffer_views) :
          /\ ViewStart(r.parse.buffer_views[i]) >= 0
          /\ ViewInBlob(r.parse.buffer_views[i], r.blob)
    /\ \A pl \in Places(r) :
          IsSome(PrimitiveAt(r.parse, pl).material) =>
              InRange(r.parse.materials, Unwrap(PrimitiveAt(r.parse, pl).material))

\* C28: after any sequence of successful melds, every index stored in the
\* result is in range: each material's texture indices are below the texture
\* count, each texture's image and sampler indices below the image and
\* sampler counts, each image's buffer-view index below the buffer-view
\* count; and every buffer view's extent lies within the result's blob.
C28_ReferencesInRange ==
    \A n \in MeldNames : mw[n].result.ok => RefsInRange(mw[n].result.val)

\* A meld of a meld whose result has more images, textures, samplers,
\* materials and bytes than its first base had.
C28_Witness ==
    /\ mw.ab.result.ok /\ mw.abc.result.ok
    /\ Len(mw.abc.result.val.parse.images) > Len(mw.ab.base.val.parse.images)
    /\ Len(mw.abc.result.val.parse.textures) > Len(mw.ab.base.val.parse.textures)
    /\ Len(mw.abc.result.val.parse.samplers) > Len(mw.ab.base.val.parse.samplers)
    /\ Len(mw.abc.result.val.parse.materials) > Len(mw.ab.base.val.parse.materials) + 1
    /\ Len(mw.abc.result.val.blob) > Len(mw.ab.base.val.blob)

-----------------------------------------------------------------------------
(* C29 *)

\* The pairing of one matched mesh pair x = <<base mesh, other mesh>> pairs no
\* two base primitives with one primitive of other, and reaches every primitive
\* of other.
PairingIsBijection(b, o, x) ==
    /\ \A p, q \in PrimitivesOf(b, x[1]) :
          (p # q /\ IsSome(MatchOf(b, o, x[1], x[2], p)))
              => MatchOf(b, o, x[1], x[2], p) # MatchOf(b, o, x[1], x[2], q)
    /\ \A op \in PrimitivesOf(o, x[2]) :
          \E p \in PrimitivesOf(b, x[1]) : MatchOf(b, o, x[1], x[2], p) = Some(op)

\* C29: in every successful meld of two constructed assets, the pairing by
\* fingerprint of each matched mesh pair is a bijection from base's primitives
\* to other's: no primitive of other is paired twice, and none is left out.
C29_PairingIsBijection ==
    \A n \in MeldNames :
        mw[n].result.ok =>
            \A x \in MeshPairs(mw[n].base.val, mw[n].other.val) :
                PairingIsBijection(mw[n].base.val, mw[n].other.val, x)

-----------------------------------------------------------------------------
(* C30 *)

\* C30: whenever WorkAsset::meld returns a result for two constructed assets,
\* the export of that result succeeds, so that VariationalAsset::meld returns
\* an asset.
C30_MeldResultExports ==
    \A n \in MeldNames : mw[n].result.ok => va[n].ok

====
